---- MODULE Spec2Model ----
(***************************************************************************)
(* A model of the cached showtime aggregation of cineboxd                  *)
(* (src/routes/api/cineboxd.ts): the chunked key/value cache over Deno KV  *)
(* (getKv, getCached, setCache), the list source client                    *)
(* (getLetterboxdList), the orchestrator (fetchAndCacheShowtimes) and the  *)
(* metadata enrichment of Chain A (getMovieMetadata and the enrichment     *)
(* map of fetchCinevilleShowtimes).                                        *)
(*                                                                         *)
(* An async function is a task that advances one await at a time: every   *)
(* action below is the code between two awaits of the function it models. *)
(* One cache key is modelled (every operation of a call uses one key).    *)
(***************************************************************************)
EXTENDS Integers, Sequences, FiniteSets, TLC

\* ------------------------------------------------------------------ bounds
\* The sizes of the source (60000 characters per chunk, 10 chunks per atomic
\* commit, 36 hours) are scaled down: the code only compares and adds them.
CHUNK_SIZE == 2
BATCH_SIZE == 2
CACHE_TTL_MS == 2
\* The clock runs from 0 to MaxTime.
MaxTime == 2
\* The longest list of shows one chain adapter returns.
MaxChainShows == 1
\* The longest title (in characters) given to normalizeTitle.
MaxTitleLen == 3
\* The number of films the id-resolution query of Chain A finds, and the
\* number of films per showtimes query (BATCH_SIZE = 20 in
\* fetchCinevilleShowtimes).
MaxFilms == 4
FilmBatchSize == 2
\* The number of showtimes the Pathe API delivers to one call of
\* fetchPatheShowtimes, over all of its queries.
MaxPatheShowtimes == 2
\* The longest list of shows a settled chain promise holds in SpecMerge.
MaxMergeShows == 3
\* The number of calls started in a run (of fetchAndCacheShowtimes in
\* SpecAgg, of the enrichment stage in SpecEnrich, of getMovieMetadata in
\* SpecMeta).
MaxCalls == 2
\* The longest zone list and the longest watchlist given to
\* matchPatheFilmsFromZone in SpecZone.
MaxZoneShows == 2
MaxWatchlist == 2
\* The days of each season a Chain B showtime is drawn from in SpecDates.
MaxDay == 2

\* ------------------------------------------------------------- JSON values
\* A Show is abstracted to one token; the payload is the response envelope
\* { data: { showtimes: { data: Show[] } } }, modelled as [data |-> Show[]].
\* "a" is a show of Chain A (cineville), "b" a show of Chain B (pathe).
CvTokens == {"a"}
PaTokens == {"b"}
ShowTokens == CvTokens \cup PaTokens

SeqsUpTo(S, n) == UNION {[1..k -> S] : k \in 0..n}

Envelope(shows) == [data |-> shows]

\* null, as getCached returns it on a miss.
NULL == [null |-> TRUE]

\* The orchestrator stores the lists of both chains, concatenated.
MaxPayloadShows == 2 * MaxChainShows

\* The payloads a direct call of setCache stores.
Payloads == {Envelope(s) : s \in SeqsUpTo(ShowTokens, MaxChainShows)}

\* JSON.stringify of an envelope: "{[" tokens separated by "," "]}", as a
\* sequence of characters ("{" and "}" stand for the three nested objects).
RECURSIVE JoinComma(_)
JoinComma(s) ==
  IF Len(s) = 0 THEN <<>>
  ELSE IF Len(s) = 1 THEN <<s[1]>>
  ELSE <<s[1], ",">> \o JoinComma(Tail(s))

Stringify(v) == <<"{", "[">> \o JoinComma(v.data) \o <<"]", "}">>

\* JSON.parse: the parsed envelope, or a SyntaxError.
ListWellFormed(inner) ==
  \/ Len(inner) = 0
  \/ /\ Len(inner) % 2 = 1
     /\ \A k \in 1..Len(inner) :
          IF k % 2 = 1 THEN inner[k] \in ShowTokens ELSE inner[k] = ","

ParseOk(s) ==
  /\ Len(s) >= 4
  /\ s[1] = "{"
  /\ s[2] = "["
  /\ s[Len(s) - 1] = "]"
  /\ s[Len(s)] = "}"
  /\ ListWellFormed(SubSeq(s, 3, Len(s) - 2))

Parse(s) ==
  LET inner == SubSeq(s, 3, Len(s) - 2)
  IN  Envelope([k \in 1..((Len(inner) + 1) \div 2) |-> inner[2 * k - 1]])

\* chunks.join("")
RECURSIVE Join(_)
Join(chunks) ==
  IF Len(chunks) = 0 THEN <<>> ELSE Head(chunks) \o Join(Tail(chunks))

Min(a, b) == IF a < b THEN a ELSE b

\* A split that keeps only the full chunks (loop bound i + CHUNK_SIZE <=
\* json.length): the tail of the text is lost.
SplitChunksDropTail(json) ==
  [k \in 1..(Len(json) \div CHUNK_SIZE) |->
     SubSeq(json, (k - 1) * CHUNK_SIZE + 1, k * CHUNK_SIZE)]

\* The split loop of setCache: json.slice(i, i + CHUNK_SIZE) for i = 0,
\* CHUNK_SIZE, 2 * CHUNK_SIZE, ... while i < json.length.
SplitChunks(json) ==
  [k \in 1..((Len(json) + CHUNK_SIZE - 1) \div CHUNK_SIZE) |->
     SubSeq(json, (k - 1) * CHUNK_SIZE + 1, Min(k * CHUNK_SIZE, Len(json)))]

MaxJsonLen == 4 + 2 * MaxPayloadShows
ChunkIdx == 0..(((MaxJsonLen + CHUNK_SIZE - 1) \div CHUNK_SIZE) - 1)

\* ------------------------------------------------------------------- state
VARIABLES
  kv,        \* the Deno KV singleton: "null" or "open"
  kvMeta,    \* the record under ["cache", key, "meta"]
  kvChunk,   \* the records under ["cache", key, "chunk", i]
  now,       \* Date.now()
  task,      \* the running calls, one record per task
  prev,      \* history: the last event on the key that completed
  calls,     \* history: the number of calls started
  TMDB_API_KEY,     \* the credential of the metadata source, "" when unset
  tmdbMemoryCache,  \* the process-local table, by lower-cased title
  tmdbKv,           \* the records under ["tmdb", lower-cased title]
  mm,               \* the running calls of getMovieMetadata, by title
  cv,               \* the enrichment stage of fetchCinevilleShowtimes
  fn,               \* the last call of a pure function: name, args, result
  pa,               \* the showtime queries of fetchPatheShowtimes
  passed,           \* history: the values passed to setCache while a
                    \* getCached may run (SpecRace)
  ca                \* the queries of fetchCinevilleShowtimes

tmdbVars == <<TMDB_API_KEY, tmdbMemoryCache, tmdbKv, mm, cv>>

vars == <<kv, kvMeta, kvChunk, now, task, prev, calls, tmdbVars, fn, pa, passed, ca>>

Tasks == {1}

NoMeta == [present |-> FALSE, chunks |-> 0, timestamp |-> 0]
NoChunk == [present |-> FALSE, value |-> <<>>]
NoPrev == [kind |-> "none", val |-> NULL, fault |-> FALSE]

\* A promise of Promise.allSettled that has not settled yet.
Pending == [status |-> "pending", value |-> <<>>]

\* What a chain adapter does inside its try block: it completes (ok) with its
\* shows, or throws after having gathered shows.
ChainOutcomes(tokens) ==
  [ok : BOOLEAN, shows : SeqsUpTo(tokens, MaxChainShows)]
NoOutcome == [ok |-> FALSE, shows |-> <<>>]

\* ------------------------------------------------- metadata source: data
\* 30 days in the source, scaled down like CACHE_TTL_MS.
METADATA_CACHE_TTL_MS == 2

TMDB_IMAGE_BASE == "img"

\* Film titles; both have the same lower-cased form. "" is a show without one.
Titles == {"A", "a"}
toLowerCase(title) == IF title = "A" THEN "a" ELSE title
CacheKeys == {toLowerCase(title) : title \in Titles}

\* TMDBMovieDetails: poster_path ("" when null), runtime, credits.crew. The
\* source knows a film fully, knows its poster only, or knows nothing of it.
Writer == [job |-> "Writer", name |-> "w"]
Director == [job |-> "Director", name |-> "x"]
Details ==
  {[poster_path |-> "/p", runtime |-> 1, crew |-> <<Writer, Director>>],
   [poster_path |-> "/p", runtime |-> 0, crew |-> <<Writer>>],
   [poster_path |-> "", runtime |-> 0, crew |-> <<>>]}

\* details.credits.crew.filter((c) => c.job === "Director").map((c) => c.name)
DirectorsOf(crew) ==
  LET d == SelectSeq(crew, LAMBDA c : c.job = "Director")
  IN  [k \in 1..Len(d) |-> d[k].name]

tmdbDetailsToMetadata(details) ==
  IF details = NULL THEN NULL
  ELSE [poster |-> IF details.poster_path # ""
                     THEN [url |-> <<TMDB_IMAGE_BASE, details.poster_path>>]
                   ELSE NULL,
        directors |-> DirectorsOf(details.crew),
        duration |-> details.runtime]

\* The Shows that the Cineville query delivers.
ChainShows ==
  [title : Titles,
   poster : {NULL, [url |-> <<"cdn", "/c">>]},
   directors : {<<>>, <<"y">>},
   duration : {0, 2},
   chain : {""}]
  \cup {[title |-> "", poster |-> NULL, directors |-> <<>>, duration |-> 0,
         chain |-> ""]}

\* An entry of a Map: absent, or a value (which may be null).
NoEntry == [has |-> FALSE, value |-> NULL]
Entry(v) == [has |-> TRUE, value |-> v]

NoTmdb == [present |-> FALSE, data |-> NULL, timestamp |-> 0]

\* A call of getMovieMetadata: its position, its caller, the details it is
\* about to store, its return value, and its history (requests sent, uses of
\* the process-local table and of the store, a request that failed).
NoCall ==
  [pc |-> "idle", by |-> "none", data |-> NULL, ret |-> NULL, requests |-> 0,
   memRead |-> FALSE, memWrote |-> FALSE, kvUsed |-> FALSE,
   raised |-> FALSE, failed |-> FALSE]

CvIdle ==
  [pc |-> "idle", shows |-> <<>>, titles |-> {},
   tmdbMetadataMap |-> [title \in Titles |-> NoEntry], out |-> <<>>]

\* No pure function was called yet.
NoFn == [name |-> "none", args |-> <<>>, result |-> NULL]

\* fetchCinevilleShowtimes was not called yet.
CaIdle == [pc |-> "idle", films |-> [kind |-> "none", n |-> 0],
           batches |-> <<>>, requests |-> 0,
           out |-> <<>>]

\* fetchPatheShowtimes was not called yet.
PaIdle == [pc |-> "idle", matchedFilms |-> <<>>, results |-> <<>>,
           shows |-> <<>>]

\* The locals of a call, and its history (fault, after, readAt, wrote,
\* deleted, resp, the request counters, innerA, innerB, degraded: a chain
\* of this call failed).
Idle ==
  [op |-> "idle", pc |-> "idle", val |-> NULL, chunks |-> <<>>,
   meta |-> NoMeta, metaSeen |-> FALSE, readAt |-> 0, i |-> 0, acc |-> <<>>,
   cached |-> NULL, fault |-> FALSE, raised |-> FALSE, after |-> NoPrev,
   attempt |-> 0, lastError |-> "none", resp |-> "none",
   listOk |-> FALSE, listAsked |-> FALSE,
   cvCalls |-> 0, paCalls |-> 0, chainA |-> Pending, chainB |-> Pending,
   innerA |-> NoOutcome, innerB |-> NoOutcome, degraded |-> FALSE,
   result |-> NULL, error |-> "none", source |-> "none",
   wrote |-> FALSE, deleted |-> FALSE, start |-> 0]

AllIdle == \A t \in Tasks : task[t].op = "idle"

\* The state after the module is loaded, but for the credential.
InitState ==
  /\ kv = "null"
  /\ kvMeta = NoMeta
  /\ kvChunk = [i \in ChunkIdx |-> NoChunk]
  /\ now = 0
  /\ task = [t \in Tasks |-> Idle]
  /\ prev = NoPrev
  /\ calls = 0
  /\ tmdbMemoryCache = [k \in CacheKeys |-> NoEntry]
  /\ tmdbKv = [k \in CacheKeys |-> NoTmdb]
  /\ mm = [title \in Titles |-> NoCall]
  /\ cv = CvIdle
  /\ fn = NoFn
  /\ pa = PaIdle
  /\ passed = {}
  /\ ca = CaIdle

Init == InitState /\ TMDB_API_KEY = "k"

\* ------------------------------------------------------------------ getKv
\* getKv: the singleton if it is open; else Deno.openKv(), whose failure is
\* caught and gives null. opened is the outcome of Deno.openKv().
getKv(opened) == IF kv = "open" \/ opened THEN "open" ELSE "null"

\* --------------------------------------------------------------- getCached
\* The catch block of getCached: the error is logged and null is returned.
CacheReadError(tk) == [tk EXCEPT !.cached = NULL, !.pc = "gc_ret"]

\* History: a call of the store (open, get, set, commit) of this task failed.
StoreFault(tk) == [tk EXCEPT !.fault = TRUE]

\* History: this task has written a record (set, commit of sets), and this
\* task has deleted records (the atomic delete of getCached).
StoreWrite(tk) == [tk EXCEPT !.wrote = TRUE]
StoreDelete(tk) == [tk EXCEPT !.deleted = TRUE]

\* return null / return JSON.parse(...) of getCached.
GcReturn(tk, value) == [tk EXCEPT !.cached = value, !.pc = "gc_ret"]

\* A TTL check that is off by one (age > CACHE_TTL_MS).
ExpiredOffByOne(age) == age > CACHE_TTL_MS

\* The TTL check of getCached.
Expired(age) == age >= CACHE_TTL_MS

\* chunks.join("") and JSON.parse; a SyntaxError lands in the catch block.
GcParse(tk, acc) ==
  IF ParseOk(Join(acc)) THEN GcReturn(tk, Parse(Join(acc)))
  ELSE CacheReadError(tk)

\* const store = await getKv(); if (!store) return null;
GcGetKv(t) ==
  /\ task[t].pc = "gc_kv"
  /\ \E opened \in BOOLEAN :
       /\ kv' = getKv(opened)
       /\ task' = [task EXCEPT ![t] =
            IF kv' = "open" THEN [@ EXCEPT !.pc = "gc_meta"]
            ELSE GcReturn(StoreFault(@), NULL)]
  /\ UNCHANGED <<kvMeta, kvChunk, now, prev, calls>>
  /\ UNCHANGED tmdbVars
  /\ UNCHANGED <<fn, pa, passed, ca>>

\* await store.get(meta), the presence test and the TTL check.
GcReadMeta(t) ==
  /\ task[t].pc = "gc_meta"
  /\ \/ task' = [task EXCEPT ![t] = CacheReadError(StoreFault(@))]
     \/ task' = [task EXCEPT ![t] =
          IF ~kvMeta.present THEN GcReturn(@, NULL)
          ELSE LET seen == [@ EXCEPT !.meta = kvMeta, !.metaSeen = TRUE,
                                     !.readAt = now, !.i = 0, !.acc = <<>>]
               IN  IF Expired(now - kvMeta.timestamp)
                     THEN [seen EXCEPT !.pc = "gc_cleanup"]
                   ELSE IF kvMeta.chunks = 0 THEN GcParse(seen, <<>>)
                   ELSE [seen EXCEPT !.pc = "gc_chunk"]]
  /\ UNCHANGED <<kv, kvMeta, kvChunk, now, prev, calls>>
  /\ UNCHANGED tmdbVars
  /\ UNCHANGED <<fn, pa, passed, ca>>

\* A cleanup that deletes the metadata record and leaves the chunk records.
GcCleanupMetaOnly(t) ==
  /\ task[t].pc = "gc_cleanup"
  /\ \/ /\ task' = [task EXCEPT ![t] = CacheReadError(StoreFault(@))]
        /\ UNCHANGED <<kvMeta, kvChunk>>
     \/ /\ kvMeta' = NoMeta
        /\ UNCHANGED kvChunk
        /\ task' = [task EXCEPT ![t] = GcReturn(StoreDelete(@), NULL)]
  /\ UNCHANGED <<kv, now, prev, calls>>
  /\ UNCHANGED tmdbVars
  /\ UNCHANGED <<fn, pa, passed, ca>>

\* The atomic delete of the expired metadata and its chunks, then return null.
GcCleanup(t) ==
  /\ task[t].pc = "gc_cleanup"
  /\ \/ /\ task' = [task EXCEPT ![t] = CacheReadError(StoreFault(@))]
        /\ UNCHANGED <<kvMeta, kvChunk>>
     \/ /\ kvMeta' = NoMeta
        /\ kvChunk' = [i \in ChunkIdx |->
             IF i < task[t].meta.chunks THEN NoChunk ELSE kvChunk[i]]
        /\ task' = [task EXCEPT ![t] = GcReturn(StoreDelete(@), NULL)]
  /\ UNCHANGED <<kv, now, prev, calls>>
  /\ UNCHANGED tmdbVars
  /\ UNCHANGED <<fn, pa, passed, ca>>

\* A chunk loop without the presence test: a missing chunk joins as "".
GcChunkStepNoCheck(tk, entry) ==
  LET acc == Append(tk.acc, entry.value)
  IN  IF tk.i + 1 < tk.meta.chunks
        THEN [tk EXCEPT !.acc = acc, !.i = tk.i + 1]
      ELSE GcParse([tk EXCEPT !.acc = acc, !.i = tk.i + 1], acc)

\* One turn of the chunk loop: await store.get(chunk i); a missing chunk
\* returns null; after the last chunk the text is joined and parsed.
GcChunkStep(tk, entry) ==
  IF ~entry.present THEN GcReturn(tk, NULL)
  ELSE LET acc == Append(tk.acc, entry.value)
       IN  IF tk.i + 1 < tk.meta.chunks
             THEN [tk EXCEPT !.acc = acc, !.i = tk.i + 1]
           ELSE GcParse([tk EXCEPT !.acc = acc, !.i = tk.i + 1], acc)

GcReadChunk(t) ==
  /\ task[t].pc = "gc_chunk"
  /\ \/ task' = [task EXCEPT ![t] = CacheReadError(StoreFault(@))]
     \/ task' = [task EXCEPT ![t] = GcChunkStep(@, kvChunk[task[t].i])]
  /\ UNCHANGED <<kv, kvMeta, kvChunk, now, prev, calls>>
  /\ UNCHANGED tmdbVars
  /\ UNCHANGED <<fn, pa, passed, ca>>

\* ---------------------------------------------------------------- setCache
\* A catch block of setCache that rethrows after logging.
CacheWriteErrorRethrow(tk) == [tk EXCEPT !.raised = TRUE, !.pc = "sc_ret"]

\* The catch block of setCache: the error is logged, the call returns.
CacheWriteError(tk) == [tk EXCEPT !.pc = "sc_ret"]

\* const store = await getKv(); if (!store) return; then stringify and split.
ScGetKv(t) ==
  /\ task[t].pc = "sc_kv"
  /\ \E opened \in BOOLEAN :
       /\ kv' = getKv(opened)
       /\ task' = [task EXCEPT ![t] =
            IF kv' = "open"
              THEN [@ EXCEPT !.pc = "sc_meta",
                             !.chunks = SplitChunks(Stringify(task[t].val))]
            ELSE [StoreFault(@) EXCEPT !.pc = "sc_ret"]]
  /\ UNCHANGED <<kvMeta, kvChunk, now, prev, calls>>
  /\ UNCHANGED tmdbVars
  /\ UNCHANGED <<fn, pa, passed, ca>>

\* await store.set(meta, { chunks: chunks.length, timestamp: Date.now() })
ScSetMeta(t) ==
  /\ task[t].pc = "sc_meta"
  /\ \/ /\ task' = [task EXCEPT ![t] = CacheWriteError(StoreFault(@))]
        /\ UNCHANGED kvMeta
     \/ /\ kvMeta' = [present |-> TRUE, chunks |-> Len(task[t].chunks),
                      timestamp |-> now]
        /\ task' = [task EXCEPT ![t] =
             [StoreWrite(@) EXCEPT !.i = 0,
                       !.pc = IF Len(task[t].chunks) = 0
                                THEN "sc_ret" ELSE "sc_batch"]]
  /\ UNCHANGED <<kv, kvChunk, now, prev, calls>>
  /\ UNCHANGED tmdbVars
  /\ UNCHANGED <<fn, pa, passed, ca>>

\* One batch: an atomic commit of chunks batchStart .. batchEnd - 1.
ScCommitBatch(t) ==
  /\ task[t].pc = "sc_batch"
  /\ \/ /\ task' = [task EXCEPT ![t] = CacheWriteError(StoreFault(@))]
        /\ UNCHANGED kvChunk
     \/ LET batchStart == task[t].i
            batchEnd == Min(batchStart + BATCH_SIZE, Len(task[t].chunks))
        IN  /\ kvChunk' = [i \in ChunkIdx |->
                 IF batchStart <= i /\ i < batchEnd
                   THEN [present |-> TRUE, value |-> task[t].chunks[i + 1]]
                 ELSE kvChunk[i]]
            /\ task' = [task EXCEPT ![t] =
                 [StoreWrite(@) EXCEPT !.i = batchEnd,
                           !.pc = IF batchEnd < Len(task[t].chunks)
                                    THEN "sc_batch" ELSE "sc_ret"]]
  /\ UNCHANGED <<kv, kvMeta, now, prev, calls>>
  /\ UNCHANGED tmdbVars
  /\ UNCHANGED <<fn, pa, passed, ca>>

\* ------------------------------------------------- calls of the cache alone
StartGet(t) ==
  /\ AllIdle
  /\ task' = [task EXCEPT ![t] =
       [Idle EXCEPT !.op = "get", !.pc = "gc_kv", !.after = prev]]
  /\ UNCHANGED <<kv, kvMeta, kvChunk, now, prev, calls>>
  /\ UNCHANGED tmdbVars
  /\ UNCHANGED <<fn, pa, passed, ca>>

StartSet(t) ==
  /\ AllIdle
  /\ \E v \in Payloads :
       task' = [task EXCEPT ![t] =
         [Idle EXCEPT !.op = "set", !.pc = "sc_kv", !.val = v, !.after = prev]]
  /\ UNCHANGED <<kv, kvMeta, kvChunk, now, prev, calls>>
  /\ UNCHANGED tmdbVars
  /\ UNCHANGED <<fn, pa, passed, ca>>

\* The call returns to its caller.
GetDone(t) ==
  /\ task[t].op = "get"
  /\ task[t].pc = "gc_ret"
  /\ prev' = [kind |-> "get", val |-> NULL, fault |-> task[t].fault]
  /\ task' = [task EXCEPT ![t] = Idle]
  /\ UNCHANGED <<kv, kvMeta, kvChunk, now, calls>>
  /\ UNCHANGED tmdbVars
  /\ UNCHANGED <<fn, pa, passed, ca>>

SetDone(t) ==
  /\ task[t].op = "set"
  /\ task[t].pc = "sc_ret"
  /\ prev' = [kind |-> "set", val |-> task[t].val, fault |-> task[t].fault]
  /\ task' = [task EXCEPT ![t] = Idle]
  /\ UNCHANGED <<kv, kvMeta, kvChunk, now, calls>>
  /\ UNCHANGED tmdbVars
  /\ UNCHANGED <<fn, pa, passed, ca>>

\* ------------------------------------------------------------- environment
\* The clock advances. Date.now() is read by GcReadMeta (the age) and by
\* ScSetMeta (the timestamp) only, so time that passes at any other await is
\* time that has passed when the next of these reads it; the same holds for
\* the metadata cache (the age in MmKvGet, the timestamp in MmSetPut).
ClockIsRead ==
  \/ \E t \in DOMAIN task : task[t].pc \in {"gc_meta", "sc_meta"}
  \/ \E title \in Titles : mm[title].pc \in {"kv_get", "set_put"}

Tick ==
  /\ now < MaxTime
  /\ ClockIsRead
  /\ now' = now + 1
  /\ UNCHANGED <<kv, kvMeta, kvChunk, task, prev, calls>>
  /\ UNCHANGED tmdbVars
  /\ UNCHANGED <<fn, pa, passed, ca>>

\* A chunk record is deleted out-of-band, between two calls.
OobDeleteChunk ==
  /\ AllIdle
  /\ \E i \in ChunkIdx :
       /\ kvChunk[i].present
       /\ kvChunk' = [kvChunk EXCEPT ![i] = NoChunk]
  /\ prev' = [kind |-> "oob", val |-> NULL, fault |-> FALSE]
  /\ UNCHANGED <<kv, kvMeta, now, task, calls>>
  /\ UNCHANGED tmdbVars
  /\ UNCHANGED <<fn, pa, passed, ca>>

CacheStep(t) ==
  \/ GcGetKv(t)
  \/ GcReadMeta(t)
  \/ GcCleanup(t)
  \/ GcReadChunk(t)
  \/ ScGetKv(t)
  \/ ScSetMeta(t)
  \/ ScCommitBatch(t)

Next ==
  \/ \E t \in Tasks : StartGet(t)
  \/ \E t \in Tasks : StartSet(t)
  \/ \E t \in Tasks : GetDone(t)
  \/ \E t \in Tasks : SetDone(t)
  \/ \E t \in Tasks : CacheStep(t)
  \/ Tick
  \/ OobDeleteChunk

Spec == Init /\ [][Next]_vars

\* ------------------------------------------------------- getLetterboxdList
maxRetries == 3

\* What one request to the list source gives: a 2xx with a list, a 2xx whose
\* body does not parse, 503, 404, another status, or a network error.
Responses == {"ok", "okBadBody", "503", "404", "500", "network"}

\* The Error thrown for a response that is not ok.
ErrorFor(resp) ==
  CASE resp = "503" -> "unavailable"
    [] resp = "404" -> "notfound"
    [] resp = "500" -> "generic"
    [] OTHER -> "network"

\* A test that takes no message for a "not found" one.
IncludesNotFoundNever(err) == FALSE

\* e.message.includes("not found")
IncludesNotFound(err) == err = "notfound"

\* The orchestrator's catch block logs swallowing an error: an empty envelope.
FcCatchSwallow(tk, err) ==
  [tk EXCEPT !.result = Envelope(<<>>), !.source = "fresh", !.pc = "fc_ret"]

\* The catch block of fetchAndCacheShowtimes: the error is logged and rethrown.
FcCatch(tk, err) ==
  [tk EXCEPT !.raised = TRUE, !.error = err, !.pc = "fc_ret"]

\* A loop without retries: every response that is not ok raises at once.
LlTurnNoRetry(tk, resp) ==
  IF resp = "ok" THEN [tk EXCEPT !.listOk = TRUE, !.pc = "fc_chains",
                                 !.attempt = 0, !.lastError = "none",
                                 !.resp = "none",
                                 !.cvCalls = @ + 1, !.paCalls = @ + 1]
  ELSE IF resp = "okBadBody" THEN FcCatch(tk, "syntax")
  ELSE FcCatch([tk EXCEPT !.lastError = ErrorFor(resp)], ErrorFor(resp))

\* One turn of the retry loop, for the response resp of the request.
LlTurn(tk, resp) ==
  IF resp = "ok" THEN [tk EXCEPT !.listOk = TRUE, !.pc = "fc_chains",
                                 !.attempt = 0, !.lastError = "none",
                                 !.resp = "none",
                                 !.cvCalls = @ + 1, !.paCalls = @ + 1]
  ELSE IF resp = "okBadBody" THEN FcCatch(tk, "syntax")
  ELSE IF resp = "503" /\ tk.attempt < maxRetries
    THEN [tk EXCEPT !.pc = "ll_delay"]
  ELSE LET caught == [tk EXCEPT !.lastError = ErrorFor(resp)]
       IN  IF tk.attempt < maxRetries /\ ~IncludesNotFound(ErrorFor(resp))
             THEN [caught EXCEPT !.pc = "ll_delay"]
           ELSE FcCatch(caught, caught.lastError)

\* await fetch(list url) and the handling of its response.
LlAttempt(t) ==
  /\ task[t].pc = "ll_fetch"
  /\ \E resp \in Responses :
       task' = [task EXCEPT ![t] =
         LlTurn([@ EXCEPT !.listAsked = TRUE, !.resp = resp], resp)]
  /\ UNCHANGED <<kv, kvMeta, kvChunk, now, prev, calls>>
  /\ UNCHANGED tmdbVars
  /\ UNCHANGED <<fn, pa, passed, ca>>

\* A delay after which the loop repeats the attempt without counting it.
LlDelayNoCount(t) ==
  /\ task[t].pc = "ll_delay"
  /\ task' = [task EXCEPT ![t] = [@ EXCEPT !.pc = "ll_fetch"]]
  /\ UNCHANGED <<kv, kvMeta, kvChunk, now, prev, calls>>
  /\ UNCHANGED tmdbVars
  /\ UNCHANGED <<fn, pa, passed, ca>>

\* await new Promise((resolve) => setTimeout(resolve, delayMs)); continue
LlDelay(t) ==
  /\ task[t].pc = "ll_delay"
  /\ task' = [task EXCEPT ![t] =
       [@ EXCEPT !.attempt = @ + 1, !.pc = "ll_fetch"]]
  /\ UNCHANGED <<kv, kvMeta, kvChunk, now, prev, calls>>
  /\ UNCHANGED tmdbVars
  /\ UNCHANGED <<fn, pa, passed, ca>>

\* ------------------------------------------------------ the chain adapters
\* An adapter whose catch block returns what was gathered before the failure.
fetchShowtimesPartial(inner) == [status |-> "fulfilled", value |-> inner.shows]

\* fetchCinevilleShowtimes (and fetchPatheShowtimes), as the orchestrator sees
\* them: the body runs in a try block whose catch returns [], so the promise
\* is fulfilled, with the shows or with the empty list.
fetchShowtimes(inner) ==
  [status |-> "fulfilled", value |-> IF inner.ok THEN inner.shows ELSE <<>>]

\* result.status === "fulfilled" ? result.value : []
SettledValue(r) == IF r.status = "fulfilled" THEN r.value ELSE <<>>

\* ------------------------------------------------- fetchAndCacheShowtimes
StartFetch(t) ==
  /\ AllIdle
  /\ calls < MaxCalls
  /\ calls' = calls + 1
  /\ task' = [task EXCEPT ![t] =
       [Idle EXCEPT !.op = "fetch", !.pc = "gc_kv", !.after = prev]]
  /\ UNCHANGED <<kv, kvMeta, kvChunk, now, prev>>
  /\ UNCHANGED tmdbVars
  /\ UNCHANGED <<fn, pa, passed, ca>>

\* A cache check that never uses the cached value.
FcAfterGetIgnoreCache(tk) == [tk EXCEPT !.pc = "ll_fetch", !.attempt = 1]

\* A cache check that stores the cached value again on a hit.
FcAfterGetRefresh(tk) ==
  IF tk.cached # NULL THEN [tk EXCEPT !.val = tk.cached, !.pc = "sc_kv"]
  ELSE [tk EXCEPT !.pc = "ll_fetch", !.attempt = 1]

\* if (cached) return cached; else the list is fetched (attempt = 1).
FcAfterGet(tk) ==
  IF tk.cached # NULL
    THEN [tk EXCEPT !.result = tk.cached, !.source = "cache", !.pc = "fc_ret"]
  ELSE [tk EXCEPT !.pc = "ll_fetch", !.attempt = 1]

FcCacheCheck(t) ==
  /\ task[t].op = "fetch"
  /\ task[t].pc = "gc_ret"
  /\ task' = [task EXCEPT ![t] = FcAfterGet(@)]
  /\ UNCHANGED <<kv, kvMeta, kvChunk, now, prev, calls>>
  /\ UNCHANGED tmdbVars
  /\ UNCHANGED <<fn, pa, passed, ca>>

\* The two promises of Promise.allSettled settle, in either order.
FcChainA(t) ==
  /\ task[t].pc = "fc_chains"
  /\ task[t].chainA = Pending
  /\ \E inner \in ChainOutcomes(CvTokens) :
       task' = [task EXCEPT ![t] =
         [@ EXCEPT !.innerA = inner, !.chainA = fetchShowtimes(inner)]]
  /\ UNCHANGED <<kv, kvMeta, kvChunk, now, prev, calls>>
  /\ UNCHANGED tmdbVars
  /\ UNCHANGED <<fn, pa, passed, ca>>

FcChainB(t) ==
  /\ task[t].pc = "fc_chains"
  /\ task[t].chainB = Pending
  /\ \E inner \in ChainOutcomes(PaTokens) :
       task' = [task EXCEPT ![t] =
         [@ EXCEPT !.innerB = inner, !.chainB = fetchShowtimes(inner)]]
  /\ UNCHANGED <<kv, kvMeta, kvChunk, now, prev, calls>>
  /\ UNCHANGED tmdbVars
  /\ UNCHANGED <<fn, pa, passed, ca>>

\* A merge that drops a show of Chain B that Chain A delivered too.
MergeShowsDedup(a, b) ==
  Envelope(SettledValue(a) \o
           SelectSeq(SettledValue(b),
                     LAMBDA x : \A k \in 1..Len(SettledValue(a)) :
                                  SettledValue(a)[k] # x))

\* const allShows = [...cinevilleShows, ...patheShows]; the envelope.
MergeShows(a, b) == Envelope(SettledValue(a) \o SettledValue(b))

\* Both settled: the results are extracted and merged into resp.
FcMerge(t) ==
  /\ task[t].pc = "fc_chains"
  /\ task[t].chainA # Pending
  /\ task[t].chainB # Pending
  /\ task' = [task EXCEPT ![t] =
       [@ EXCEPT !.val = MergeShows(task[t].chainA, task[t].chainB),
                 !.pc = "fc_merged"]]
  /\ UNCHANGED <<kv, kvMeta, kvChunk, now, prev, calls>>
  /\ UNCHANGED tmdbVars
  /\ UNCHANGED <<fn, pa, passed, ca>>

\* A store step that writes complete results only: when a chain failed, resp
\* is returned without a call of setCache.
FcStoreSkipDegraded(t) ==
  /\ task[t].pc = "fc_merged"
  /\ task' = [task EXCEPT ![t] =
       IF ~task[t].innerA.ok \/ ~task[t].innerB.ok
         THEN [@ EXCEPT !.chainA = Pending, !.chainB = Pending,
                        !.innerA = NoOutcome, !.innerB = NoOutcome,
                        !.degraded = TRUE,
                        !.result = task[t].val, !.source = "fresh",
                        !.pc = "fc_ret"]
       ELSE [@ EXCEPT !.chainA = Pending, !.chainB = Pending,
                      !.innerA = NoOutcome, !.innerB = NoOutcome,
                      !.pc = "sc_kv"]]
  /\ UNCHANGED <<kv, kvMeta, kvChunk, now, prev, calls>>
  /\ UNCHANGED tmdbVars
  /\ UNCHANGED <<fn, pa, passed, ca>>

\* setCache(cacheKey, resp) is called, whatever the chains did; the settled
\* results are not used again.
FcStore(t) ==
  /\ task[t].pc = "fc_merged"
  /\ task' = [task EXCEPT ![t] =
       [@ EXCEPT !.chainA = Pending, !.chainB = Pending,
                 !.innerA = NoOutcome, !.innerB = NoOutcome,
                 !.degraded = ~task[t].innerA.ok \/ ~task[t].innerB.ok,
                 !.pc = "sc_kv"]]
  /\ UNCHANGED <<kv, kvMeta, kvChunk, now, prev, calls>>
  /\ UNCHANGED tmdbVars
  /\ UNCHANGED <<fn, pa, passed, ca>>

\* await setCache(cacheKey, resp); return resp (a rejection of setCache would
\* land in the catch block).
FcAfterSet(tk) ==
  IF tk.raised THEN FcCatch(tk, "cache")
  ELSE [tk EXCEPT !.result = tk.val, !.source = "fresh", !.pc = "fc_ret"]

FcStored(t) ==
  /\ task[t].op = "fetch"
  /\ task[t].pc = "sc_ret"
  /\ task' = [task EXCEPT ![t] = FcAfterSet(@)]
  /\ UNCHANGED <<kv, kvMeta, kvChunk, now, prev, calls>>
  /\ UNCHANGED tmdbVars
  /\ UNCHANGED <<fn, pa, passed, ca>>

\* The call returns (or raises) to its caller.
FetchDone(t) ==
  /\ task[t].pc = "fc_ret"
  /\ prev' = [kind |-> "fetch",
              val |-> IF task[t].raised THEN NULL ELSE task[t].result,
              fault |-> task[t].fault, degraded |-> task[t].degraded]
  /\ task' = [task EXCEPT ![t] = Idle]
  /\ UNCHANGED <<kv, kvMeta, kvChunk, now, calls>>
  /\ UNCHANGED tmdbVars
  /\ UNCHANGED <<fn, pa, passed, ca>>

FetchStep(t) ==
  \/ FcCacheCheck(t)
  \/ LlAttempt(t)
  \/ LlDelay(t)
  \/ FcChainA(t)
  \/ FcChainB(t)
  \/ FcMerge(t)
  \/ FcStore(t)
  \/ FcStored(t)

NextAgg ==
  \/ \E t \in Tasks : StartFetch(t)
  \/ \E t \in Tasks : FetchStep(t)
  \/ \E t \in Tasks : CacheStep(t)
  \/ \E t \in Tasks : FetchDone(t)
  \/ Tick

SpecAgg == Init /\ [][NextAgg]_vars

\* Every store call, upstream request and timer a call waits for completes:
\* the step of the call that follows the await is taken.
CallsMakeProgress ==
  \A t \in Tasks : WF_vars(FetchStep(t) \/ CacheStep(t) \/ FetchDone(t))

\* A call of fetchAndCacheShowtimes and, when it has returned, one more for
\* the same list: the second finds what the first has stored, or nothing.
StartCall(t) ==
  /\ calls < 2
  /\ StartFetch(t)

NextCalls ==
  \/ \E t \in Tasks : StartCall(t)
  \/ \E t \in Tasks : FetchStep(t)
  \/ \E t \in Tasks : CacheStep(t)
  \/ \E t \in Tasks : FetchDone(t)
  \/ Tick

SpecCallsFair == Init /\ [][NextCalls]_vars /\ CallsMakeProgress

\* ------------------------------------------------------------- cron jobs
\* A cron job fires (main.ts): the callback reads the clock into start and
\* calls fetchAndCacheShowtimes with the list path of the job.
StartCron(t) ==
  /\ AllIdle
  /\ calls < MaxCalls
  /\ calls' = calls + 1
  /\ task' = [task EXCEPT ![t] =
       [Idle EXCEPT !.op = "fetch", !.pc = "gc_kv", !.after = prev,
                    !.start = now]]
  /\ UNCHANGED <<kv, kvMeta, kvChunk, now, prev>>
  /\ UNCHANGED tmdbVars
  /\ UNCHANGED <<fn, pa, passed, ca>>

\* Time passes while no call is at an await of the cache or of the
\* orchestrator: between two firings of a job, between two requests.
TickIdle ==
  /\ AllIdle
  /\ now < MaxTime
  /\ now' = now + 1
  /\ UNCHANGED <<kv, kvMeta, kvChunk, task, prev, calls>>
  /\ UNCHANGED tmdbVars
  /\ UNCHANGED <<fn, pa, passed, ca>>

\* Runs of one cron job: its invocations follow each other, and the call
\* returns to the callback, which logs the outcome.
NextCron ==
  \/ \E t \in Tasks : StartCron(t)
  \/ \E t \in Tasks : FetchStep(t)
  \/ \E t \in Tasks : CacheStep(t)
  \/ \E t \in Tasks : FetchDone(t)
  \/ Tick
  \/ TickIdle

SpecCron == Init /\ [][NextCron]_vars

\* ------------------------------------------------------------ handler.GET
\* Objects of the runtime have an identity: JSON.parse in getCached and the
\* object literal of fetchAndCacheShowtimes make a new object whenever they
\* run. A reference is a number, and null has the reference 0.
NullObject == [ref |-> 0, val |-> NULL]
NewObject(ref, val) == [ref |-> ref, val |-> val]

\* a === b for operands that are objects or null: the same reference.
StrictEquals(a, b) == a.ref = b.ref

\* No request is being handled.
NoRequest(f) == f.name = "none" \/ (f.name = "GET" /\ f.pc = "done")

\* A request arrives: the handler calls fetchAndCacheShowtimes(listPath).
HandlerGET(t) ==
  /\ AllIdle
  /\ NoRequest(fn)
  /\ calls < MaxCalls
  /\ calls' = calls + 1
  /\ task' = [task EXCEPT ![t] =
       [Idle EXCEPT !.op = "fetch", !.pc = "gc_kv", !.after = prev]]
  /\ fn' = [name |-> "GET", pc |-> "fetch", resp |-> NullObject,
            source |-> "none", again |-> NullObject, refs |-> 0,
            status |-> 0, xCache |-> "none"]
  /\ UNCHANGED <<kv, kvMeta, kvChunk, now, prev>>
  /\ UNCHANGED tmdbVars
  /\ UNCHANGED <<pa, passed, ca>>

\* fetchAndCacheShowtimes returns resp, an object it parsed or built, and the
\* handler calls getCached(cacheKey); or it raises and the handler answers 500.
HandlerAfterFetch(t) ==
  /\ fn.name = "GET"
  /\ fn.pc = "fetch"
  /\ task[t].op = "fetch"
  /\ task[t].pc = "fc_ret"
  /\ prev' = [kind |-> "fetch",
              val |-> IF task[t].raised THEN NULL ELSE task[t].result,
              fault |-> task[t].fault, degraded |-> task[t].degraded]
  /\ IF task[t].raised
       THEN /\ task' = [task EXCEPT ![t] = Idle]
            /\ fn' = [fn EXCEPT !.pc = "done", !.status = 500]
       ELSE /\ task' = [task EXCEPT ![t] =
                 [Idle EXCEPT !.op = "get", !.pc = "gc_kv", !.after = prev']]
            /\ fn' = [fn EXCEPT !.pc = "get",
                                !.resp = NewObject(fn.refs + 1, task[t].result),
                                !.source = task[t].source,
                                !.refs = fn.refs + 1]
  /\ UNCHANGED <<kv, kvMeta, kvChunk, now, calls>>
  /\ UNCHANGED tmdbVars
  /\ UNCHANGED <<pa, passed, ca>>

\* getCached returns null or an object it parsed; wasCached compares it with
\* resp, and the response carries X-Cache.
HandlerRespond(t) ==
  /\ fn.name = "GET"
  /\ fn.pc = "get"
  /\ task[t].op = "get"
  /\ task[t].pc = "gc_ret"
  /\ LET again == IF task[t].cached = NULL THEN NullObject
                  ELSE NewObject(fn.refs + 1, task[t].cached)
         wasCached == StrictEquals(again, fn.resp)
     IN fn' = [fn EXCEPT !.pc = "done", !.again = again,
                         !.refs = again.ref,
                         !.status = 200,
                         !.xCache = IF wasCached THEN "HIT" ELSE "MISS"]
  /\ prev' = [kind |-> "get", val |-> NULL, fault |-> task[t].fault]
  /\ task' = [task EXCEPT ![t] = Idle]
  /\ UNCHANGED <<kv, kvMeta, kvChunk, now, calls>>
  /\ UNCHANGED tmdbVars
  /\ UNCHANGED <<pa, passed, ca>>

\* Requests of GET /api/cineboxd, one after the other.
NextHandler ==
  \/ \E t \in Tasks : HandlerGET(t)
  \/ \E t \in Tasks : FetchStep(t)
  \/ \E t \in Tasks : CacheStep(t)
  \/ \E t \in Tasks : HandlerAfterFetch(t)
  \/ \E t \in Tasks : HandlerRespond(t)
  \/ Tick
  \/ TickIdle

SpecHandler == Init /\ [][NextHandler]_vars

\* -------------------------------------------------------- getMovieMetadata
\* The entry without the credential guard.
MmEnterNoKeyCheck(title, by) ==
  LET e == tmdbMemoryCache[toLowerCase(title)]
  IN  IF e.has
        THEN [NoCall EXCEPT !.pc = "done", !.by = by, !.memRead = TRUE,
                            !.ret = tmdbDetailsToMetadata(e.value)]
      ELSE [NoCall EXCEPT !.pc = "kv_open", !.by = by, !.memRead = TRUE]

\* An entry that does not look into the process-local table: every call with
\* a credential goes to the persistent cache.
MmEnterSkipTable(title, by) ==
  IF TMDB_API_KEY = "" THEN [NoCall EXCEPT !.pc = "done", !.by = by]
  ELSE [NoCall EXCEPT !.pc = "kv_open", !.by = by, !.memRead = TRUE]

\* The part of getMovieMetadata that runs before its first await: the
\* credential guard and the look into the process-local table.
MmEnter(title, by) ==
  IF TMDB_API_KEY = "" THEN [NoCall EXCEPT !.pc = "done", !.by = by]
  ELSE LET e == tmdbMemoryCache[toLowerCase(title)]
       IN  IF e.has
             THEN [NoCall EXCEPT !.pc = "done", !.by = by, !.memRead = TRUE,
                                 !.ret = tmdbDetailsToMetadata(e.value)]
           ELSE [NoCall EXCEPT !.pc = "kv_open", !.by = by, !.memRead = TRUE]

\* A caller other than the enrichment stage calls getMovieMetadata(title).
MmCall(title) ==
  /\ mm[title].pc = "idle"
  /\ calls < MaxCalls
  /\ calls' = calls + 1
  /\ mm' = [mm EXCEPT ![title] = MmEnter(title, "direct")]
  /\ UNCHANGED <<kv, kvMeta, kvChunk, now, task, prev>>
  /\ UNCHANGED <<TMDB_API_KEY, tmdbMemoryCache, tmdbKv, cv>>
  /\ UNCHANGED <<fn, pa, passed, ca>>

\* getCachedTMDBMetadata: const store = await getKv(); no store: undefined.
MmKvOpen(title) ==
  /\ mm[title].pc = "kv_open"
  /\ \E opened \in BOOLEAN :
       /\ kv' = getKv(opened)
       /\ mm' = [mm EXCEPT ![title] =
            [@ EXCEPT !.kvUsed = TRUE,
                      !.pc = IF kv' = "open" THEN "kv_get" ELSE "search"]]
  /\ UNCHANGED <<kvMeta, kvChunk, now, task, prev, calls>>
  /\ UNCHANGED <<TMDB_API_KEY, tmdbMemoryCache, tmdbKv, cv>>
  /\ UNCHANGED <<fn, pa, passed, ca>>

\* The 30-day TTL check of getCachedTMDBMetadata.
MetadataExpired(age) == age >= METADATA_CACHE_TTL_MS

\* await store.get(["tmdb", key]): a failure, an absent or an expired record
\* give undefined and the search follows; else the record's data (which may be
\* null) is put into the process-local table and returned.
MmKvGet(title) ==
  /\ mm[title].pc = "kv_get"
  /\ LET r == tmdbKv[toLowerCase(title)]
     IN  \/ /\ mm' = [mm EXCEPT ![title] = [@ EXCEPT !.pc = "search"]]
            /\ UNCHANGED tmdbMemoryCache
         \/ /\ ~r.present \/ MetadataExpired(now - r.timestamp)
            /\ mm' = [mm EXCEPT ![title] = [@ EXCEPT !.pc = "search"]]
            /\ UNCHANGED tmdbMemoryCache
         \/ /\ r.present
            /\ ~MetadataExpired(now - r.timestamp)
            /\ tmdbMemoryCache' =
                 [tmdbMemoryCache EXCEPT ![toLowerCase(title)] = Entry(r.data)]
            /\ mm' = [mm EXCEPT ![title] =
                 [@ EXCEPT !.pc = "done", !.memWrote = TRUE,
                           !.ret = tmdbDetailsToMetadata(r.data)]]
  /\ UNCHANGED <<kv, kvMeta, kvChunk, now, task, prev, calls>>
  /\ UNCHANGED <<TMDB_API_KEY, tmdbKv, cv>>
  /\ UNCHANGED <<fn, pa, passed, ca>>

\* await searchTMDB(title): a match, no match, or a failed request (null too).
\* Without a result null goes into the process-local table.
MmSearch(title) ==
  /\ mm[title].pc = "search"
  /\ \E outcome \in {"found", "none", "failed"} :
       IF outcome = "found"
         THEN /\ mm' = [mm EXCEPT ![title] =
                   [@ EXCEPT !.requests = @ + 1, !.pc = "details"]]
              /\ UNCHANGED tmdbMemoryCache
       ELSE /\ tmdbMemoryCache' =
                 [tmdbMemoryCache EXCEPT ![toLowerCase(title)] = Entry(NULL)]
            /\ mm' = [mm EXCEPT ![title] =
                 [@ EXCEPT !.requests = @ + 1, !.memWrote = TRUE,
                           !.failed = (outcome = "failed"),
                           !.data = NULL, !.pc = "set_open"]]
  /\ UNCHANGED <<kv, kvMeta, kvChunk, now, task, prev, calls>>
  /\ UNCHANGED <<TMDB_API_KEY, tmdbKv, cv>>
  /\ UNCHANGED <<fn, pa, passed, ca>>

\* await getTMDBDetails(searchResult.id): the details, or null when the
\* request failed or the status was not 2xx; tmdbMemoryCache.set(cacheKey,
\* details). getTMDBDetails returns response.json() without awaiting it, so
\* when the body of a 2xx response is not JSON the rejection passes by its
\* catch: the await in getMovieMetadata throws and the call is rejected,
\* before anything is put into the table.
MmDetails(title) ==
  /\ mm[title].pc = "details"
  /\ \/ \E details \in Details \cup {NULL} :
          /\ tmdbMemoryCache' =
               [tmdbMemoryCache EXCEPT ![toLowerCase(title)] = Entry(details)]
          /\ mm' = [mm EXCEPT ![title] =
               [@ EXCEPT !.requests = @ + 1, !.memWrote = TRUE,
                         !.failed = (details = NULL),
                         !.data = details, !.pc = "set_open"]]
     \/ /\ mm' = [mm EXCEPT ![title] =
               [@ EXCEPT !.requests = @ + 1, !.raised = TRUE,
                         !.failed = TRUE, !.pc = "done"]]
        /\ UNCHANGED tmdbMemoryCache
  /\ UNCHANGED <<kv, kvMeta, kvChunk, now, task, prev, calls>>
  /\ UNCHANGED <<TMDB_API_KEY, tmdbKv, cv>>
  /\ UNCHANGED <<fn, pa, passed, ca>>

\* return tmdbDetailsToMetadata(details), or return null after a search
\* without a result.
MmReturnData(call) ==
  [call EXCEPT !.pc = "done", !.data = NULL,
               !.ret = tmdbDetailsToMetadata(call.data)]

\* setCachedTMDBMetadata: const store = await getKv(); if (!store) return;
MmSetOpen(title) ==
  /\ mm[title].pc = "set_open"
  /\ \E opened \in BOOLEAN :
       /\ kv' = getKv(opened)
       /\ mm' = [mm EXCEPT ![title] =
            IF kv' = "open" THEN [@ EXCEPT !.kvUsed = TRUE, !.pc = "set_put"]
            ELSE MmReturnData([@ EXCEPT !.kvUsed = TRUE])]
  /\ UNCHANGED <<kvMeta, kvChunk, now, task, prev, calls>>
  /\ UNCHANGED <<TMDB_API_KEY, tmdbMemoryCache, tmdbKv, cv>>
  /\ UNCHANGED <<fn, pa, passed, ca>>

\* await store.set(["tmdb", key], { data, timestamp: Date.now() }); an error
\* is ignored.
MmSetPut(title) ==
  /\ mm[title].pc = "set_put"
  /\ \/ UNCHANGED tmdbKv
     \/ tmdbKv' = [tmdbKv EXCEPT ![toLowerCase(title)] =
          [present |-> TRUE, data |-> mm[title].data, timestamp |-> now]]
  /\ mm' = [mm EXCEPT ![title] = MmReturnData(@)]
  /\ UNCHANGED <<kv, kvMeta, kvChunk, now, task, prev, calls>>
  /\ UNCHANGED <<TMDB_API_KEY, tmdbMemoryCache, cv>>
  /\ UNCHANGED <<fn, pa, passed, ca>>

\* The call returns to a caller other than the enrichment stage.
MmReturn(title) ==
  /\ mm[title].pc = "done"
  /\ mm[title].by = "direct"
  /\ mm' = [mm EXCEPT ![title] = NoCall]
  /\ UNCHANGED <<kv, kvMeta, kvChunk, now, task, prev, calls>>
  /\ UNCHANGED <<TMDB_API_KEY, tmdbMemoryCache, tmdbKv, cv>>
  /\ UNCHANGED <<fn, pa, passed, ca>>

MmStep(title) ==
  \/ MmKvOpen(title)
  \/ MmKvGet(title)
  \/ MmSearch(title)
  \/ MmDetails(title)
  \/ MmSetOpen(title)
  \/ MmSetPut(title)

\* --------------------------------- fetchCinevilleShowtimes: the enrichment
\* !show.film?.poster?.url
HasPosterUrl(poster) == poster # NULL

\* The titles put into filmsNeedingEnrichment: those of the shows that have a
\* title and miss a poster url or directors.
filmsNeedingEnrichment(shows) ==
  {shows[k].title : k \in {j \in 1..Len(shows) :
     /\ shows[j].title # ""
     /\ ~HasPosterUrl(shows[j].poster) \/ Len(shows[j].directors) = 0}}

\* const tmdb = title ? tmdbMetadataMap.get(title) : null (undefined and null
\* both skip the enrichment).
TmdbFor(title, map) ==
  IF title # "" /\ map[title].has THEN map[title].value ELSE NULL

\* An enrichment that takes the directors of the metadata source whenever it
\* has some.
EnrichShowOverwrite(show, tmdb) ==
  LET enriched == [show EXCEPT !.chain = "cineville"]
  IN  IF tmdb = NULL THEN enriched
      ELSE [enriched EXCEPT
              !.poster = IF ~HasPosterUrl(@) /\ tmdb.poster # NULL
                           THEN tmdb.poster ELSE @,
              !.directors = IF Len(tmdb.directors) > 0
                              THEN tmdb.directors ELSE @,
              !.duration = IF @ = 0 /\ tmdb.duration # 0
                             THEN tmdb.duration ELSE @]

\* The body of shows.map: the chain identifier is added, and a missing poster,
\* missing directors and a missing duration are taken from tmdb if it has them.
EnrichShow(show, tmdb) ==
  LET enriched == [show EXCEPT !.chain = "cineville"]
  IN  IF tmdb = NULL THEN enriched
      ELSE [enriched EXCEPT
              !.poster = IF ~HasPosterUrl(@) /\ tmdb.poster # NULL
                           THEN tmdb.poster ELSE @,
              !.directors = IF Len(@) = 0 /\ Len(tmdb.directors) > 0
                              THEN tmdb.directors ELSE @,
              !.duration = IF @ = 0 /\ tmdb.duration # 0
                             THEN tmdb.duration ELSE @]

EnrichAll(shows, map) ==
  [k \in 1..Len(shows) |-> EnrichShow(shows[k], TmdbFor(shows[k].title, map))]

\* The showtimes query has delivered shows. With a credential and titles to
\* enrich, getMovieMetadata is called for each title (each call runs to its
\* first await) and Promise.all waits; else the shows are mapped at once.
CvStart ==
  /\ cv.pc = "idle"
  /\ calls < MaxCalls
  /\ calls' = calls + 1
  /\ \E shows \in SeqsUpTo(ChainShows, MaxChainShows) :
       LET titles == filmsNeedingEnrichment(shows)
       IN  IF TMDB_API_KEY # "" /\ titles # {}
             THEN /\ \A title \in titles : mm[title].pc = "idle"
                  /\ mm' = [title \in Titles |->
                       IF title \in titles THEN MmEnter(title, "cv")
                       ELSE mm[title]]
                  /\ cv' = [CvIdle EXCEPT !.pc = "prefetch", !.shows = shows,
                                          !.titles = titles]
           ELSE /\ cv' = [CvIdle EXCEPT
                     !.pc = "enriched", !.shows = shows,
                     !.out = EnrichAll(shows, CvIdle.tmdbMetadataMap)]
                /\ UNCHANGED mm
  /\ UNCHANGED <<kv, kvMeta, kvChunk, now, task, prev>>
  /\ UNCHANGED <<TMDB_API_KEY, tmdbMemoryCache, tmdbKv>>
  /\ UNCHANGED <<fn, pa, passed, ca>>

\* Promise.all has settled. Resolved: tmdbMetadataMap is filled and the
\* shows are mapped. Rejected, because a call of getMovieMetadata was: the
\* catch of fetchCinevilleShowtimes returns []. (Promise.all rejects at the
\* first rejection and the other calls run on; here they have finished, which
\* changes nothing in what the catch returns.)
CvEnrich ==
  /\ cv.pc = "prefetch"
  /\ \A title \in cv.titles : mm[title].pc = "done"
  /\ LET map == [title \in Titles |->
                   IF title \in cv.titles THEN Entry(mm[title].ret)
                   ELSE NoEntry]
     IN  IF \E title \in cv.titles : mm[title].raised
           THEN cv' = [cv EXCEPT !.pc = "enriched", !.out = <<>>]
         ELSE cv' = [cv EXCEPT !.pc = "enriched", !.tmdbMetadataMap = map,
                               !.out = EnrichAll(cv.shows, map)]
  /\ mm' = [title \in Titles |->
       IF title \in cv.titles THEN NoCall ELSE mm[title]]
  /\ UNCHANGED <<kv, kvMeta, kvChunk, now, task, prev, calls>>
  /\ UNCHANGED <<TMDB_API_KEY, tmdbMemoryCache, tmdbKv>>
  /\ UNCHANGED <<fn, pa, passed, ca>>

\* fetchCinevilleShowtimes returns the mapped shows.
CvReturn ==
  /\ cv.pc = "enriched"
  /\ cv' = CvIdle
  /\ UNCHANGED <<kv, kvMeta, kvChunk, now, task, prev, calls>>
  /\ UNCHANGED <<TMDB_API_KEY, tmdbMemoryCache, tmdbKv, mm>>
  /\ UNCHANGED <<fn, pa, passed, ca>>

\* The process starts with or without the credential in its environment.
InitEnrich == InitState /\ TMDB_API_KEY \in {"", "k"}

\* Runs of the enrichment stage, with the calls of getMovieMetadata it makes.
NextEnrich ==
  \/ CvStart
  \/ \E title \in Titles : MmStep(title)
  \/ CvEnrich
  \/ CvReturn
  \/ Tick

SpecEnrich == InitEnrich /\ [][NextEnrich]_vars

\* Enrichment stages of successive aggregation calls in one process, with
\* the time that passes between them and during them.
NextRuns ==
  \/ CvStart
  \/ \E title \in Titles : MmStep(title)
  \/ CvEnrich
  \/ CvReturn
  \/ TickIdle

SpecRuns == InitEnrich /\ [][NextRuns]_vars

\* Calls of getMovieMetadata by other callers, which may run concurrently.
NextMeta ==
  \/ \E title \in Titles : MmCall(title)
  \/ \E title \in Titles : MmStep(title)
  \/ \E title \in Titles : MmReturn(title)
  \/ Tick

SpecMeta == InitEnrich /\ [][NextMeta]_vars

\* ----------------------------------------------------------- title matching
\* A title is a sequence of characters: a lower-case letter, an upper-case
\* letter, a precomposed accented letter ("e^", which NFD decomposes into "e"
\* and the combining mark "^"), a digit, a punctuation mark, a space, a tab.
TitleChars == {"a", "B", "e^", "1", "!", " ", "\t"}
TitleStrings == SeqsUpTo(TitleChars, MaxTitleLen)

\* title.toLowerCase()
StrToLowerCase(s) == [k \in 1..Len(s) |-> IF s[k] = "B" THEN "b" ELSE s[k]]

\* .normalize("NFD")
RECURSIVE NormalizeNFD(_)
NormalizeNFD(s) ==
  IF Len(s) = 0 THEN <<>>
  ELSE (IF Head(s) = "e^" THEN <<"e", "^">> ELSE <<Head(s)>>)
         \o NormalizeNFD(Tail(s))

\* .replace(/[\u0300-\u036f]/g, "")
RemoveAccents(s) == SelectSeq(s, LAMBDA c : c # "^")

\* \s
IsSpace(c) == c \in {" ", "\t"}

\* .replace(/[^a-z0-9\s]/g, "")
RemovePunctuation(s) ==
  SelectSeq(s, LAMBDA c : c \in {"a", "b", "e", "1"} \/ IsSpace(c))

\* .replace(/\s+/g, " ")
RECURSIVE TrimStart(_)
TrimStart(s) ==
  IF Len(s) > 0 /\ IsSpace(Head(s)) THEN TrimStart(Tail(s)) ELSE s

RECURSIVE NormalizeWhitespace(_)
NormalizeWhitespace(s) ==
  IF Len(s) = 0 THEN <<>>
  ELSE IF IsSpace(Head(s)) THEN <<" ">> \o NormalizeWhitespace(TrimStart(s))
  ELSE <<Head(s)>> \o NormalizeWhitespace(Tail(s))

\* .trim()
RECURSIVE TrimEnd(_)
TrimEnd(s) ==
  IF Len(s) > 0 /\ IsSpace(s[Len(s)]) THEN TrimEnd(SubSeq(s, 1, Len(s) - 1))
  ELSE s

Trim(s) == TrimEnd(TrimStart(s))

\* A normalization that trims and collapses before it removes punctuation.
normalizeTitleTrimFirst(title) ==
  RemovePunctuation(Trim(NormalizeWhitespace(
    RemoveAccents(NormalizeNFD(StrToLowerCase(title))))))

normalizeTitle(title) ==
  Trim(NormalizeWhitespace(RemovePunctuation(
    RemoveAccents(NormalizeNFD(StrToLowerCase(title))))))

\* normalizeTitle is called with a title (a run looks at one call).
NormalizeTitleCall ==
  /\ fn = NoFn
  /\ \E title \in TitleStrings :
       fn' = [name |-> "normalizeTitle", args |-> <<title>>,
              result |-> normalizeTitle(title)]
  /\ UNCHANGED <<kv, kvMeta, kvChunk, now, task, prev, calls, tmdbVars, pa, passed, ca>>

\* haystack.includes(needle)
Includes(haystack, needle) ==
  \E i \in 0..(Len(haystack) - Len(needle)) :
    SubSeq(haystack, i + 1, i + Len(needle)) = needle

\* A match rule that only looks for the watchlist title in the slug title.
isMatchOneWay(normalizedSlugTitle, watchlistTitle) ==
  \/ normalizedSlugTitle = watchlistTitle
  \/ Includes(normalizedSlugTitle, watchlistTitle)

\* The test of normalizedWatchlist.some in matchPatheFilmsFromZone.
isMatch(normalizedSlugTitle, watchlistTitle) ==
  \/ normalizedSlugTitle = watchlistTitle
  \/ Includes(normalizedSlugTitle, watchlistTitle)
  \/ Includes(watchlistTitle, normalizedSlugTitle)

\* The titles that reach the test: both sides are results of normalizeTitle.
NormalizedTitles == {normalizeTitle(title) : title \in TitleStrings}

\* The test is applied to a slug title and a watchlist title.
IsMatchCall ==
  /\ fn = NoFn
  /\ \E a \in NormalizedTitles, b \in NormalizedTitles :
       fn' = [name |-> "isMatch", args |-> <<a, b>>, result |-> isMatch(a, b)]
  /\ UNCHANGED <<kv, kvMeta, kvChunk, now, task, prev, calls, tmdbVars, pa, passed, ca>>

\* Calls of the title functions.
NextTitle ==
  \/ NormalizeTitleCall
  \/ IsMatchCall

SpecTitle == Init /\ [][NextTitle]_vars

\* ------------------------------------------------------ zone matching
\* The indicator "-nederlands-gesproken" and the indicator
\* "-originele-versie" of a slug: a hyphen, a word, a hyphen, a word.
DubSuffix == <<"-", "b", "-", "e">>
OvSuffix == <<"-", "e", "-", "b">>

\* The number of digits a string ends with.
RECURSIVE TrailingDigits(_)
TrailingDigits(s) ==
  IF Len(s) > 0 /\ s[Len(s)] = "1"
  THEN 1 + TrailingDigits(SubSeq(s, 1, Len(s) - 1))
  ELSE 0

\* .replace(/-\d+$/, "")
StripTrailingId(s) ==
  LET d == TrailingDigits(s) IN
  IF d > 0 /\ Len(s) > d /\ s[Len(s) - d] = "-"
  THEN SubSeq(s, 1, Len(s) - d - 1)
  ELSE s

\* .replace(/-nederlands-gesproken$/, "") and .replace(/-originele-versie$/, "")
StripSuffix(s, suffix) ==
  IF /\ Len(s) >= Len(suffix)
     /\ SubSeq(s, Len(s) - Len(suffix) + 1, Len(s)) = suffix
  THEN SubSeq(s, 1, Len(s) - Len(suffix))
  ELSE s

\* .replace(/-/g, " ")
HyphensToSpaces(s) == [k \in 1..Len(s) |-> IF s[k] = "-" THEN " " ELSE s[k]]

slugToTitle(slug) ==
  Trim(HyphensToSpaces(
    StripSuffix(StripSuffix(StripTrailingId(slug), DubSuffix), OvSuffix)))

\* A matcher that does not look at the bookable flag of a show.
matchPatheFilmsFromZoneAnyShow(watchlistTitles, zoneShows) ==
  LET normalizedWatchlist ==
        [k \in 1..Len(watchlistTitles) |-> normalizeTitle(watchlistTitles[k])]
      keep(show) ==
        LET normalizedSlugTitle == normalizeTitle(slugToTitle(show.slug)) IN
        \E k \in 1..Len(normalizedWatchlist) :
          isMatch(normalizedSlugTitle, normalizedWatchlist[k])
  IN SelectSeq(zoneShows, keep)

matchPatheFilmsFromZone(watchlistTitles, zoneShows) ==
  LET normalizedWatchlist ==
        [k \in 1..Len(watchlistTitles) |-> normalizeTitle(watchlistTitles[k])]
      keep(show) ==
        /\ show.bookable
        /\ LET normalizedSlugTitle == normalizeTitle(slugToTitle(show.slug)) IN
           \E k \in 1..Len(normalizedWatchlist) :
             isMatch(normalizedSlugTitle, normalizedWatchlist[k])
  IN SelectSeq(zoneShows, keep)

\* Slugs of zone entries: a title with or without the indicators and the
\* trailing id, and an indicator that is not at the end.
ZoneSlugs ==
  { <<"a", "-", "1">>,
    <<"a", "-", "e">> \o <<"-", "1", "1">>,
    <<"a">> \o DubSuffix \o <<"-", "1">>,
    <<"e">> \o OvSuffix,
    <<"a">> \o OvSuffix \o DubSuffix \o <<"-", "1">>,
    <<"a">> \o DubSuffix \o OvSuffix }

\* Entries of the zone response (the fields the matcher reads).
PatheZoneShows == [slug : ZoneSlugs, bookable : BOOLEAN]

\* Titles of the watchlist as Letterboxd spells them.
WatchlistTitles ==
  { <<"a">>, <<"B", " ", "e">>, <<"!">> }

\* matchPatheFilmsFromZone is called with a watchlist and a zone response.
MatchZoneCall ==
  /\ fn = NoFn
  /\ \E watchlistTitles \in SeqsUpTo(WatchlistTitles, MaxWatchlist),
        zoneShows \in SeqsUpTo(PatheZoneShows, MaxZoneShows) :
       fn' = [name |-> "matchPatheFilmsFromZone",
              args |-> <<watchlistTitles, zoneShows>>,
              result |-> matchPatheFilmsFromZone(watchlistTitles, zoneShows)]
  /\ UNCHANGED <<kv, kvMeta, kvChunk, now, task, prev, calls, tmdbVars, pa, passed, ca>>

NextZone == MatchZoneCall

SpecZone == Init /\ [][NextZone]_vars

\* ------------------------------------------------- Chain B show dates
\* A local wall-clock time of the source ("2025-12-21 17:00:00"): a date, here
\* a day of the winter or of the summer, and an hour of that day.
LocalTimes == [season : {"winter", "summer"}, day : 1..MaxDay, hour : 0..23]

\* The UTC offset in force at the cinemas (Europe/Amsterdam) on a date, in
\* hours: CET in the winter, CEST in the summer.
OffsetInForce(season) == IF season = "summer" THEN 2 ELSE 1

\* new Date(local.replace(" ", "T") + offset): the instant, in hours since
\* the start of day 0 (UTC) of the season of the date.
DateParse(local, offsetHours) ==
  [season |-> local.season, hours |-> local.day * 24 + local.hour - offsetHours]

\* .toISOString(): the UTC date and hour of an instant.
toISOString(instant) ==
  [season |-> instant.season, day |-> instant.hours \div 24,
   hour |-> instant.hours % 24, zone |-> "Z"]

\* startDate and endDate of patheShowtimeToShow; the end time of a showtime
\* is a list that is empty when the source gives none.
startDate(showtime) == toISOString(DateParse(showtime.time, 1))

endDate(showtime) ==
  IF Len(showtime.endTime) > 0
  THEN toISOString(DateParse(showtime.endTime[1], 1))
  ELSE startDate(showtime)

\* patheShowtimeToShow is called with a showtime of the source.
ShowDatesCall ==
  /\ fn = NoFn
  /\ \E time \in LocalTimes,
        endTime \in {<<>>} \cup {<<e>> : e \in LocalTimes} :
       LET showtime == [time |-> time, endTime |-> endTime] IN
       fn' = [name |-> "patheShowtimeToShow",
              args |-> <<showtime>>,
              result |-> [startDate |-> startDate(showtime),
                          endDate |-> endDate(showtime)]]
  /\ UNCHANGED <<kv, kvMeta, kvChunk, now, task, prev, calls, tmdbVars, pa, passed, ca>>

NextDates == ShowDatesCall

SpecDates == Init /\ [][NextDates]_vars

\* ------------------------------------------------------------------- merge
\* What Promise.allSettled gives for a chain: fulfilled with a list of shows
\* (the same show may be in both lists), or rejected.
SettledResults ==
  {[status |-> "fulfilled", value |-> v] :
     v \in SeqsUpTo(ShowTokens, MaxMergeShows)}
  \cup {[status |-> "rejected", value |-> <<>>]}

\* The extraction and the merge are applied to two settled results.
MergeCall ==
  /\ fn = NoFn
  /\ \E a \in SettledResults, b \in SettledResults :
       fn' = [name |-> "merge", args |-> <<a, b>>, result |-> MergeShows(a, b)]
  /\ UNCHANGED <<kv, kvMeta, kvChunk, now, task, prev, calls, tmdbVars, pa, passed, ca>>

NextMerge ==
  \/ MergeCall

SpecMerge == Init /\ [][NextMerge]_vars

\* ------------------------------------------------------------ chunk sizes
\* The UTF-16 code units of a serialized payload: "a" is an ASCII character,
\* "w" a character above U+00FF (JSON.stringify leaves it as it is), and the
\* braces stand for the envelope.
TextUnits == {"a", "w"}

JsonTexts ==
  {<<"{">> \o s \o <<"}">> : s \in SeqsUpTo(TextUnits, MaxJsonLen - 2)}

\* The bytes the store holds for a string value: one per code unit when every
\* unit is below U+0100, two per code unit otherwise (the header of the
\* serialization is left out).
SerializedSize(chunk) ==
  IF \A k \in 1..Len(chunk) : chunk[k] # "w" THEN Len(chunk)
  ELSE 2 * Len(chunk)

\* The per-value ceiling of the store (64 KiB): above CHUNK_SIZE and below
\* twice CHUNK_SIZE, as 65,536 is to 60,000.
KV_VALUE_LIMIT == CHUNK_SIZE + 1

\* setCache splits a serialized payload; the store takes a chunk or rejects
\* it as too large.
SplitCall ==
  /\ fn = NoFn
  /\ \E json \in JsonTexts :
       fn' = [name |-> "split", args |-> <<json>>,
              result |->
                [chunks |-> SplitChunks(json),
                 accepted |->
                   [k \in 1..Len(SplitChunks(json)) |->
                      SerializedSize(SplitChunks(json)[k]) <= KV_VALUE_LIMIT]]]
  /\ UNCHANGED <<kv, kvMeta, kvChunk, now, task, prev, calls, tmdbVars, pa, passed, ca>>

NextSplit ==
  \/ SplitCall

SpecSplit == Init /\ [][NextSplit]_vars

\* ------------------------------------------------------ fetchPatheShowtimes
\* The slugs of PATHE_CINEMAS (two of them stand for the list).
PATHE_CINEMAS == <<"c1", "c2">>

\* generateDateRange(15) (one day stands for the fifteen).
generateDateRange == <<"d1">>

\* The lists matchPatheFilmsFromZone can give: film slugs of the zone.
MatchedFilms == {<<>>, <<"f1">>, <<"f1", "f2">>}

\* A PatheShowtime of the day date: its time and its endTime (the day and
\* the hour) and its auditorium. Two auditoriums can start the same film at
\* the same hour. The strings come from the Pathe API unchecked: endTime can
\* be missing (<<>>), and either string can be one that Date cannot parse
\* (the hour "??").
PatheShowtimes(date) ==
  {[time |-> <<date, "h1">>, endTime |-> <<date, "h2">>,
    auditoriumName |-> "1"],
   [time |-> <<date, "h1">>, endTime |-> <<>>, auditoriumName |-> "2"],
   [time |-> <<date, "h2">>, endTime |-> <<date, "h2">>,
    auditoriumName |-> "1"],
   [time |-> <<date, "??">>, endTime |-> <<date, "h2">>,
    auditoriumName |-> "1"],
   [time |-> <<date, "h1">>, endTime |-> <<date, "??">>,
    auditoriumName |-> "1"]}

\* new Date(s.replace(" ", "T") + "+01:00") is a valid date.
ValidDate(s) == s # <<>> /\ s[2] \in {"h1", "h2"}

\* patheShowtimeToShow raises: toISOString() throws a RangeError on an
\* invalid date, for the time and, when there is one, for the endTime.
patheShowtimeToShowRaises(showtime) ==
  \/ ~ValidDate(showtime.time)
  \/ showtime.endTime # <<>> /\ ~ValidDate(showtime.endTime)

RECURSIVE Flatten(_)
\* Array.prototype.flat, one level.
Flatten(ss) == IF ss = <<>> THEN <<>> ELSE Head(ss) \o Flatten(Tail(ss))

\* PATHE_CINEMAS.flatMap((cinema) => dates.map((date) => ({cinema, date})))
Requests ==
  Flatten([c \in 1..Len(PATHE_CINEMAS) |->
             [d \in 1..Len(generateDateRange) |->
                [cinema |-> PATHE_CINEMAS[c], date |-> generateDateRange[d]]]])

\* The queries of a call: the film (its place in matchedFilms), the request.
Slices(films) == (1..Len(films)) \X (1..Len(Requests))

\* What a showtime query can meet: the request fails, the status is not 2xx,
\* the body is not JSON, the JSON is not an array, or it is a list of
\* showtimes of the day asked for, of at most room showtimes.
QueryOutcomes(date, room) ==
  {[kind |-> k, data |-> <<>>] :
     k \in {"network", "status", "body", "notarray"}}
  \cup {[kind |-> "ok", data |-> d] :
          d \in SeqsUpTo(PatheShowtimes(date), room)}

\* The query has not settled.
NoQuery == [kind |-> "pending", data |-> <<>>]

\* A query that degrades to empty and takes the adapter's other queries with
\* it is what the isolation forbids: here a failure is raised to the caller.
fetchPatheShowtimesForCinemaRaise(o) ==
  IF o.kind = "ok" THEN [raised |-> FALSE, value |-> o.data]
  ELSE IF o.kind = "notarray" THEN [raised |-> FALSE, value |-> <<>>]
  ELSE [raised |-> TRUE, value |-> <<>>]

\* fetchPatheShowtimesForCinema: [] when the status is not 2xx, [] from the
\* catch when fetch or response.json() rejects, [] when the data is not an
\* array, the data otherwise. It never raises.
fetchPatheShowtimesForCinema(o) ==
  [raised |-> FALSE, value |-> IF o.kind = "ok" THEN o.data ELSE <<>>]

\* patheShowtimeToShow: the fields that identify the show. The auditorium is
\* not among them.
patheShowtimeToShow(showtime, filmSlug, cinema) ==
  [id |-> <<"pathe", filmSlug, cinema, showtime.time>>,
   film |-> filmSlug, theater |-> cinema, chain |-> "pathe"]

\* One element of filmPromises: the shows of the film, request by request.
FilmShows(films, f, results) ==
  Flatten([i \in 1..Len(Requests) |->
             [k \in 1..Len(fetchPatheShowtimesForCinema(results[<<f, i>>]).value)
                |-> patheShowtimeToShow(
                      fetchPatheShowtimesForCinema(results[<<f, i>>]).value[k],
                      films[f], Requests[i].cinema)]])

\* The body of the try block after the queries settled, and the catch: a
\* query that raised rejects Promise.all, a conversion that raised rejects
\* the promise of its film and with it Promise.all, and the catch returns [].
PatheShows(films, results) ==
  IF \/ \E s \in Slices(films) :
          fetchPatheShowtimesForCinema(results[s]).raised
     \/ \E s \in Slices(films) :
          \E k \in 1..Len(fetchPatheShowtimesForCinema(results[s]).value) :
            patheShowtimeToShowRaises(
              fetchPatheShowtimesForCinema(results[s]).value[k])
  THEN <<>>
  ELSE Flatten([f \in 1..Len(films) |-> FilmShows(films, f, results)])

RECURSIVE Delivered(_, _)
\* The number of showtimes the queries in S delivered.
Delivered(results, S) ==
  IF S = {} THEN 0
  ELSE LET s == CHOOSE x \in S : TRUE
       IN  Len(results[s].data) + Delivered(results, S \ {s})

\* fetchPatheShowtimes up to the queries: no film matched (the zone request
\* failing gives that too) returns []; otherwise every query is started. The
\* credential is unset, so no metadata is fetched.
PaStart ==
  /\ pa.pc = "idle"
  /\ TMDB_API_KEY = ""
  /\ \E films \in MatchedFilms :
       pa' = IF films = <<>>
             THEN [pa EXCEPT !.pc = "done"]
             ELSE [pa EXCEPT !.pc = "queries", !.matchedFilms = films,
                             !.results = [s \in Slices(films) |-> NoQuery]]
  /\ UNCHANGED <<kv, kvMeta, kvChunk, now, task, prev, calls, tmdbVars, fn, passed, ca>>

\* One query settles; the queries run concurrently, so in any order.
PaQuery ==
  /\ pa.pc = "queries"
  /\ LET delivered == Delivered(pa.results, Slices(pa.matchedFilms))
     IN  \E s \in Slices(pa.matchedFilms) :
           /\ pa.results[s] = NoQuery
           /\ \E o \in QueryOutcomes(Requests[s[2]].date,
                                      MaxPatheShowtimes - delivered) :
                pa' = [pa EXCEPT !.results[s] = o]
  /\ UNCHANGED <<kv, kvMeta, kvChunk, now, task, prev, calls, tmdbVars, fn, passed, ca>>

\* Every query settled: the shows are collected and returned.
PaReturn ==
  /\ pa.pc = "queries"
  /\ \A s \in Slices(pa.matchedFilms) : pa.results[s] # NoQuery
  /\ pa' = [pa EXCEPT !.pc = "done",
                      !.shows = PatheShows(pa.matchedFilms, pa.results)]
  /\ UNCHANGED <<kv, kvMeta, kvChunk, now, task, prev, calls, tmdbVars, fn, passed, ca>>

InitPathe == InitState /\ TMDB_API_KEY = ""

NextPathe ==
  \/ PaStart
  \/ PaQuery
  \/ PaReturn

SpecPathe == InitPathe /\ [][NextPathe]_vars

\* ------------------------------------------ fetchCinevilleShowtimes: queries
\* What getCinevilleProductionIds can meet: the request fails, the status
\* is not 2xx (both raise), or the films found, by id.
IdsOutcomes ==
  {[kind |-> k, films |-> <<>>] : k \in {"network", "status"}}
  \cup {[kind |-> "ok", films |-> [k \in 1..n |-> k]] : n \in 0..MaxFilms}

\* productionIdBatches: slices of BATCH_SIZE films.
productionIdBatches(films) ==
  [b \in 1..((Len(films) + FilmBatchSize - 1) \div FilmBatchSize) |->
     SubSeq(films, (b - 1) * FilmBatchSize + 1,
            Min(b * FilmBatchSize, Len(films)))]

\* What the showtimes query of the batch b can meet: the request fails, the
\* status is not 2xx, the body is not JSON (all three reject the promise of
\* the batch), or shows of films of the batch.
BatchOutcomes(batch) ==
  {[kind |-> k, data |-> <<>>] : k \in {"network", "status", "body"}}
  \cup {[kind |-> "ok", data |-> d] :
          d \in SeqsUpTo({[film |-> batch[k]] : k \in 1..Len(batch)},
                         MaxChainShows)}

\* A collection that keeps the shows of the batches that succeeded.
CinevilleShowsPerBatch(batches) ==
  Flatten([b \in 1..Len(batches) |->
             IF batches[b].kind = "ok"
               THEN [k \in 1..Len(batches[b].data) |->
                       [film |-> batches[b].data[k].film,
                        chain |-> "cineville"]]
             ELSE <<>>])

\* await Promise.all(batchPromises), batchResults.flat() and the map that
\* adds the chain identifier; a rejected batch rejects Promise.all and the
\* catch returns [].
CinevilleShows(batches) ==
  IF \E b \in 1..Len(batches) : batches[b].kind \notin {"ok", "pending"}
    THEN <<>>
  ELSE Flatten([b \in 1..Len(batches) |->
                  [k \in 1..Len(batches[b].data) |->
                     [film |-> batches[b].data[k].film,
                      chain |-> "cineville"]]])

\* fetchCinevilleShowtimes up to the showtimes queries: the id-resolution
\* query raises (the catch returns []), finds no film (return []), or finds
\* films, and the query of every batch is sent. The credential is unset, so
\* no metadata is fetched.
CaStart ==
  /\ ca.pc = "idle"
  /\ TMDB_API_KEY = ""
  /\ \E o \in IdsOutcomes :
       ca' = IF o.kind # "ok" \/ o.films = <<>>
               THEN [ca EXCEPT !.pc = "done", !.requests = 1,
                               !.films = [kind |-> o.kind, n |-> 0]]
             ELSE [ca EXCEPT
                     !.pc = "batches",
                     !.films = [kind |-> o.kind, n |-> Len(o.films)],
                     !.requests = 1 + Len(productionIdBatches(o.films)),
                     !.batches =
                       [b \in 1..Len(productionIdBatches(o.films)) |->
                          NoQuery]]
  /\ UNCHANGED <<kv, kvMeta, kvChunk, now, task, prev, calls, tmdbVars>>
  /\ UNCHANGED <<fn, pa, passed>>

\* The query of one batch settles; the queries run concurrently.
CaBatch ==
  /\ ca.pc = "batches"
  /\ \E b \in 1..Len(ca.batches) :
       /\ ca.batches[b] = NoQuery
       /\ \E o \in BatchOutcomes(
                     productionIdBatches([k \in 1..ca.films.n |-> k])[b]) :
            ca' = [ca EXCEPT !.batches[b] = o]
  /\ UNCHANGED <<kv, kvMeta, kvChunk, now, task, prev, calls, tmdbVars>>
  /\ UNCHANGED <<fn, pa, passed>>

\* Promise.all settles: it rejects as soon as one batch is rejected, and
\* resolves when every batch is fulfilled; fetchCinevilleShowtimes returns.
CaReturn ==
  /\ ca.pc = "batches"
  /\ \/ \E b \in 1..Len(ca.batches) :
          ca.batches[b].kind \notin {"ok", "pending"}
     \/ \A b \in 1..Len(ca.batches) : ca.batches[b].kind = "ok"
  /\ ca' = [ca EXCEPT !.pc = "done", !.out = CinevilleShows(ca.batches)]
  /\ UNCHANGED <<kv, kvMeta, kvChunk, now, task, prev, calls, tmdbVars>>
  /\ UNCHANGED <<fn, pa, passed>>

NextChainA ==
  \/ CaStart
  \/ CaBatch
  \/ CaReturn

SpecChainA == InitPathe /\ [][NextChainA]_vars

\* ------------------------------------------- getCached racing setCache
\* Two requests run in one process: task SetTask calls setCache, one call
\* after the other, and task GetTask calls getCached at any time, also while
\* a setCache is between two of its awaits.
SetTask == "writer"
GetTask == "reader"

\* The values passed to setCache: the empty list, and two lists that hold the
\* same two shows in different orders (the tokens stand for any two shows).
RaceValues ==
  {Envelope(<<>>), Envelope(<<"a", "b">>), Envelope(<<"b", "a">>)}

\* The state after the module is loaded, with the two tasks.
InitRace ==
  /\ kv = "null"
  /\ kvMeta = NoMeta
  /\ kvChunk = [i \in ChunkIdx |-> NoChunk]
  /\ now = 0
  /\ task = [t \in {SetTask, GetTask} |-> Idle]
  /\ prev = NoPrev
  /\ calls = 0
  /\ TMDB_API_KEY = "k"
  /\ tmdbMemoryCache = [k \in CacheKeys |-> NoEntry]
  /\ tmdbKv = [k \in CacheKeys |-> NoTmdb]
  /\ mm = [title \in Titles |-> NoCall]
  /\ cv = CvIdle
  /\ fn = NoFn
  /\ pa = PaIdle
  /\ passed = {}
  /\ ca = CaIdle

\* setCache(key, v) is called.
StartSetRace ==
  /\ task[SetTask].op = "idle"
  /\ calls < MaxCalls
  /\ calls' = calls + 1
  /\ \E v \in RaceValues :
       /\ task' = [task EXCEPT ![SetTask] =
            [Idle EXCEPT !.op = "set", !.pc = "sc_kv", !.val = v,
                         !.after = prev]]
       /\ passed' = passed \cup {v}
  /\ UNCHANGED <<kv, kvMeta, kvChunk, now, prev>>
  /\ UNCHANGED tmdbVars
  /\ UNCHANGED <<fn, pa, ca>>

\* getCached(key) is called, whatever the writer is doing.
StartGetRace ==
  /\ task[GetTask].op = "idle"
  /\ task' = [task EXCEPT ![GetTask] =
       [Idle EXCEPT !.op = "get", !.pc = "gc_kv", !.after = prev]]
  /\ UNCHANGED <<kv, kvMeta, kvChunk, now, prev, calls>>
  /\ UNCHANGED tmdbVars
  /\ UNCHANGED <<fn, pa, passed, ca>>

NextRace ==
  \/ StartSetRace
  \/ StartGetRace
  \/ SetDone(SetTask)
  \/ GetDone(GetTask)
  \/ \E t \in {SetTask, GetTask} : CacheStep(t)
  \/ Tick

SpecRace == InitRace /\ [][NextRace]_vars

\* -------------------------------------------- two setCache calls, one key
\* Two requests call setCache for the same key: the second call starts while
\* the first is between two of its awaits, or after it has returned. When both
\* have returned a third request calls getCached. The calls keep their locals
\* after they have returned.
FirstSet == "first"
SecondSet == "second"
GetAfter == "after"

\* The state after the module is loaded, with the three tasks.
InitWriters ==
  /\ kv = "null"
  /\ kvMeta = NoMeta
  /\ kvChunk = [i \in ChunkIdx |-> NoChunk]
  /\ now = 0
  /\ task = [t \in {FirstSet, SecondSet, GetAfter} |-> Idle]
  /\ prev = NoPrev
  /\ calls = 0
  /\ TMDB_API_KEY = "k"
  /\ tmdbMemoryCache = [k \in CacheKeys |-> NoEntry]
  /\ tmdbKv = [k \in CacheKeys |-> NoTmdb]
  /\ mm = [title \in Titles |-> NoCall]
  /\ cv = CvIdle
  /\ fn = NoFn
  /\ pa = PaIdle
  /\ passed = {}
  /\ ca = CaIdle

\* What a call that starts now knows of the call t: it has returned (and with
\* what), or it has not.
ReturnedSet(t) ==
  IF task[t].pc = "sc_ret"
    THEN [kind |-> "set", val |-> task[t].val, fault |-> task[t].fault]
  ELSE NoPrev

\* The first setCache(key, v) is called.
StartFirstSet ==
  /\ task[FirstSet].op = "idle"
  /\ \E v \in RaceValues :
       task' = [task EXCEPT ![FirstSet] =
         [Idle EXCEPT !.op = "set", !.pc = "sc_kv", !.val = v]]
  /\ UNCHANGED <<kv, kvMeta, kvChunk, now, prev, calls>>
  /\ UNCHANGED tmdbVars
  /\ UNCHANGED <<fn, pa, passed, ca>>

\* The second setCache(key, v) is called, during the first call or after it.
StartSecondSet ==
  /\ task[FirstSet].op = "set"
  /\ task[SecondSet].op = "idle"
  /\ \E v \in RaceValues :
       task' = [task EXCEPT ![SecondSet] =
         [Idle EXCEPT !.op = "set", !.pc = "sc_kv", !.val = v,
                      !.after = ReturnedSet(FirstSet)]]
  /\ UNCHANGED <<kv, kvMeta, kvChunk, now, prev, calls>>
  /\ UNCHANGED tmdbVars
  /\ UNCHANGED <<fn, pa, passed, ca>>

\* getCached(key) is called after both setCache calls have returned.
StartGetAfter ==
  /\ task[FirstSet].pc = "sc_ret"
  /\ task[SecondSet].pc = "sc_ret"
  /\ task[GetAfter].op = "idle"
  /\ task' = [task EXCEPT ![GetAfter] =
       [Idle EXCEPT !.op = "get", !.pc = "gc_kv",
                    !.after = ReturnedSet(SecondSet)]]
  /\ UNCHANGED <<kv, kvMeta, kvChunk, now, prev, calls>>
  /\ UNCHANGED tmdbVars
  /\ UNCHANGED <<fn, pa, passed, ca>>

NextWriters ==
  \/ StartFirstSet
  \/ StartSecondSet
  \/ StartGetAfter
  \/ \E t \in {FirstSet, SecondSet, GetAfter} : CacheStep(t)
  \/ Tick

SpecWriters == InitWriters /\ [][NextWriters]_vars

\* ------------------------------------- a cleanup that lands after a setCache
\* setCache(key, v1) has returned and its entry grows old. A request calls
\* getCached, and another calls setCache(key, v2) while the first is between
\* two of its awaits, or before it, or after it. When setCache has returned a
\* third request calls getCached. The calls keep their locals after they have
\* returned.
StaleGet == "stale"

\* The state after the module is loaded, with the four tasks.
InitStale ==
  /\ kv = "null"
  /\ kvMeta = NoMeta
  /\ kvChunk = [i \in ChunkIdx |-> NoChunk]
  /\ now = 0
  /\ task = [t \in {FirstSet, StaleGet, SecondSet, GetAfter} |-> Idle]
  /\ prev = NoPrev
  /\ calls = 0
  /\ TMDB_API_KEY = "k"
  /\ tmdbMemoryCache = [k \in CacheKeys |-> NoEntry]
  /\ tmdbKv = [k \in CacheKeys |-> NoTmdb]
  /\ mm = [title \in Titles |-> NoCall]
  /\ cv = CvIdle
  /\ fn = NoFn
  /\ pa = PaIdle
  /\ passed = {}
  /\ ca = CaIdle

\* getCached(key) is called after the first setCache has returned.
StartStaleGet ==
  /\ task[FirstSet].pc = "sc_ret"
  /\ task[StaleGet].op = "idle"
  /\ task' = [task EXCEPT ![StaleGet] =
       [Idle EXCEPT !.op = "get", !.pc = "gc_kv",
                    !.after = ReturnedSet(FirstSet)]]
  /\ UNCHANGED <<kv, kvMeta, kvChunk, now, prev, calls>>
  /\ UNCHANGED tmdbVars
  /\ UNCHANGED <<fn, pa, passed, ca>>

\* setCache(key, v2) is called after the first setCache has returned; start
\* is the time of the call.
StartSetLater ==
  /\ task[FirstSet].pc = "sc_ret"
  /\ task[SecondSet].op = "idle"
  /\ \E v \in RaceValues :
       task' = [task EXCEPT ![SecondSet] =
         [Idle EXCEPT !.op = "set", !.pc = "sc_kv", !.val = v,
                      !.after = ReturnedSet(FirstSet), !.start = now]]
  /\ UNCHANGED <<kv, kvMeta, kvChunk, now, prev, calls>>
  /\ UNCHANGED tmdbVars
  /\ UNCHANGED <<fn, pa, passed, ca>>

NextStale ==
  \/ StartFirstSet
  \/ StartStaleGet
  \/ StartSetLater
  \/ StartGetAfter
  \/ \E t \in {FirstSet, StaleGet, SecondSet, GetAfter} : CacheStep(t)
  \/ Tick

SpecStale == InitStale /\ [][NextStale]_vars

\* ------------------------------------------------------------------ claims
\* What the store holds under the metadata m: the chunk texts 0..m.chunks-1.
StoredChunks(m) == [k \in 1..m.chunks |-> kvChunk[k - 1].value]
AllChunksPresent(m) == \A i \in 0..(m.chunks - 1) : kvChunk[i].present

\* C2 (as amended): a read at t' >= t + T of an entry stamped t gives MISS,
\* whatever chunks exist; a read at t' < t + T gives the stored value when
\* every chunk record is present, the text deserializes and no store call
\* failed.
C2_TtlBoundary ==
  \A t \in Tasks :
    LET tk == task[t]
    IN  (tk.pc = "gc_ret" /\ tk.metaSeen) =>
          /\ (tk.readAt >= tk.meta.timestamp + CACHE_TTL_MS => tk.cached = NULL)
          /\ (/\ tk.readAt < tk.meta.timestamp + CACHE_TTL_MS
              /\ ~tk.fault
              /\ AllChunksPresent(tk.meta)
              /\ ParseOk(Join(StoredChunks(tk.meta)))
              => tk.cached = Parse(Join(StoredChunks(tk.meta))))

\* C2 witness: a read exactly at t + T of an entry whose chunks all exist
\* has been answered (the cleanup itself failed, so the chunks are still there).
C2_Witness ==
  \E t \in Tasks :
    /\ task[t].pc = "gc_ret"
    /\ task[t].metaSeen
    /\ task[t].readAt = task[t].meta.timestamp + CACHE_TTL_MS
    /\ task[t].cached = NULL
    /\ AllChunksPresent(task[t].meta)
    /\ kvMeta.present

\* C2 as stated: every read at t' < t + T finds the entry present, regardless
\* of chunk presence (here: after an out-of-band deletion of a chunk record,
\* the store calls of the read succeeding).
C2_PresentRegardlessOfChunks ==
  \A t \in Tasks :
    LET tk == task[t]
    IN  (tk.pc = "gc_ret" /\ tk.metaSeen /\ ~tk.fault /\ tk.after.kind = "oob") =>
          /\ (tk.readAt >= tk.meta.timestamp + CACHE_TTL_MS => tk.cached = NULL)
          /\ (tk.readAt < tk.meta.timestamp + CACHE_TTL_MS => tk.cached # NULL)

\* C3: a get that directly follows a completed set of a payload longer than
\* one chunk, within the TTL and with every store call succeeding, returns
\* the payload: the chunks read, in order, are the chunks of the split, and
\* their concatenation is the serialized text.
C3_ChunkRoundTrip ==
  \A t \in Tasks :
    LET tk == task[t]
        json == Stringify(tk.after.val)
    IN  (/\ tk.op = "get"
         /\ tk.pc = "gc_ret"
         /\ tk.after.kind = "set"
         /\ ~tk.after.fault
         /\ ~tk.fault
         /\ Len(json) > CHUNK_SIZE
         /\ tk.readAt - tk.meta.timestamp < CACHE_TTL_MS)
        => /\ tk.cached = tk.after.val
           /\ tk.acc = SplitChunks(json)
           /\ Join(tk.acc) = json
           /\ Len(tk.acc) = tk.meta.chunks

\* C3 witness: such a get has returned a payload of more chunks than one
\* batch holds.
C3_Witness ==
  \E t \in Tasks :
    /\ task[t].op = "get"
    /\ task[t].pc = "gc_ret"
    /\ task[t].after.kind = "set"
    /\ ~task[t].after.fault
    /\ ~task[t].fault
    /\ Len(task[t].acc) > BATCH_SIZE
    /\ task[t].cached = task[t].after.val
    /\ Len(task[t].cached.data) = MaxChainShows

\* C4: when a get has found unexpired metadata and a chunk record below its
\* chunk count is absent, the get returns MISS and raises nothing.
C4_MissingChunkIsMiss ==
  \A t \in Tasks :
    LET tk == task[t]
    IN  (/\ tk.pc = "gc_ret"
         /\ tk.metaSeen
         /\ tk.readAt < tk.meta.timestamp + CACHE_TTL_MS
         /\ ~AllChunksPresent(tk.meta))
        => (tk.cached = NULL /\ ~tk.raised)

\* C4 witness: the metadata of a completed set names its chunks, one of them
\* was deleted out-of-band, the others exist, and the get has returned.
C4_Witness ==
  \E t \in Tasks :
    /\ task[t].op = "get"
    /\ task[t].pc = "gc_ret"
    /\ task[t].after.kind = "oob"
    /\ task[t].metaSeen
    /\ ~task[t].fault
    /\ task[t].readAt < task[t].meta.timestamp + CACHE_TTL_MS
    /\ task[t].meta.chunks >= 3
    /\ kvChunk[0].present
    /\ ~kvChunk[1].present
    /\ kvChunk[2].present
    /\ task[t].cached = NULL

\* The second read of an entry is not an expired one.
NotExpiredAtRead(tk) == ~(tk.metaSeen /\ Expired(tk.readAt - tk.meta.timestamp))

Succeeded(inner) == IF inner.ok THEN inner.shows ELSE <<>>

\* C5: once the list is fetched, whatever the two chains do, the merged
\* envelope holds exactly the shows of the chains that succeeded (Chain A's
\* first), and the call returns that envelope without raising.
C5_PartialFailureMerge ==
  \A t \in Tasks :
    LET tk == task[t]
    IN  /\ tk.pc = "fc_merged" =>
             /\ tk.val = Envelope(Succeeded(tk.innerA) \o Succeeded(tk.innerB))
             /\ Len(tk.val.data) =
                  Len(Succeeded(tk.innerA)) + Len(Succeeded(tk.innerB))
             /\ ~tk.raised
        /\ (tk.pc = "fc_ret" /\ tk.listOk) =>
             /\ ~tk.raised
             /\ tk.source = "fresh"
             /\ tk.result = tk.val

\* C5 witness: Chain A failed after it had gathered shows, Chain B returned
\* its shows, and the merge holds exactly Chain B's.
C5_Witness ==
  \E t \in Tasks :
    /\ task[t].pc = "fc_merged"
    /\ ~task[t].innerA.ok
    /\ Len(task[t].innerA.shows) > 0
    /\ task[t].innerB.ok
    /\ Len(task[t].innerB.shows) = MaxChainShows
    /\ task[t].val = Envelope(task[t].innerB.shows)

\* C6: when the list fetch has failed (not found, retries exhausted, or a
\* body that is no list), the call raises that error, no chain was invoked
\* and the call has written no cache record.
C6_ListFailureRaises ==
  \A t \in Tasks :
    LET tk == task[t]
    IN  (tk.pc = "fc_ret" /\ tk.listAsked /\ ~tk.listOk) =>
          /\ tk.raised
          /\ tk.error \in {"notfound", "unavailable", "generic", "network",
                           "syntax"}
          /\ tk.error # "syntax" => tk.error = tk.lastError
          /\ tk.error \in {"unavailable", "generic", "network"} =>
               tk.attempt = maxRetries
          /\ tk.cvCalls = 0
          /\ tk.paCalls = 0
          /\ ~tk.wrote

\* C6 witness: the list source answered 503 until the retries were exhausted,
\* over an entry that a former call had left, and the call has raised.
C6_Witness ==
  \E t \in Tasks :
    /\ task[t].pc = "fc_ret"
    /\ task[t].raised
    /\ task[t].error = "unavailable"
    /\ task[t].attempt = maxRetries
    /\ task[t].after.kind = "fetch"
    /\ kvMeta.present

\* C7: a cache hit is read-only. A call that returned from the cache has
\* asked neither the list source nor a chain (the metadata source is asked by
\* Chain A only), has written and deleted no record, and the stored
\* timestamp is the one it read; and a complete, unexpired entry whose text
\* deserializes is a hit when the store calls succeed.
C7_HitIsReadOnly ==
  \A t \in Tasks :
    LET tk == task[t]
    IN  /\ (tk.pc = "fc_ret" /\ tk.source = "cache") =>
             /\ ~tk.raised
             /\ ~tk.listAsked
             /\ tk.cvCalls = 0
             /\ tk.paCalls = 0
             /\ ~tk.wrote
             /\ ~tk.deleted
             /\ kvMeta = tk.meta
             /\ tk.result = Parse(Join(StoredChunks(kvMeta)))
        /\ (/\ tk.pc = "fc_ret"
            /\ tk.metaSeen
            /\ ~tk.fault
            /\ ~Expired(tk.readAt - tk.meta.timestamp)
            /\ Len(tk.acc) = tk.meta.chunks
            /\ ParseOk(Join(tk.acc)))
           => tk.source = "cache"

\* C7 witness: a call has returned from the cache, at a time after the write
\* of the entry, and the stored timestamp is still that of the write.
C7_Witness ==
  \E t \in Tasks :
    /\ task[t].pc = "fc_ret"
    /\ task[t].source = "cache"
    /\ task[t].readAt > kvMeta.timestamp
    /\ kvMeta.chunks > BATCH_SIZE
    /\ AllChunksPresent(kvMeta)

\* C10: getCached and setCache raise nothing, whatever call of the store
\* fails: getCached returns MISS when a store call failed or the text does
\* not deserialize, setCache returns, and a call of fetchAndCacheShowtimes
\* that fetched the list returns the merged envelope it computed.
C10_StoreFailureContained ==
  \A t \in Tasks :
    LET tk == task[t]
    IN  /\ tk.pc = "gc_ret" =>
             /\ ~tk.raised
             /\ tk.fault => tk.cached = NULL
             /\ tk.cached # NULL =>
                  (ParseOk(Join(tk.acc)) /\ tk.cached = Parse(Join(tk.acc)))
        /\ tk.pc = "sc_ret" => ~tk.raised
        /\ (tk.pc = "fc_ret" /\ tk.listOk) =>
             /\ ~tk.raised
             /\ tk.source = "fresh"
             /\ tk.result = tk.val

\* C10 witness: a call whose cache write failed after the metadata record
\* was set has returned the fresh envelope.
C10_Witness ==
  \E t \in Tasks :
    /\ task[t].pc = "fc_ret"
    /\ task[t].fault
    /\ task[t].wrote
    /\ ~AllChunksPresent(kvMeta)
    /\ ~task[t].raised
    /\ task[t].source = "fresh"
    /\ Len(task[t].result.data) > 0

\* C8: the enrichment never overwrites a value the chain delivered. For every
\* returned show, a present poster url, a non-empty directors list and a non-zero
\* duration are after the enrichment what they were before, whatever the
\* metadata source returned; a value that differs after the enrichment is
\* the metadata source's, in a field the chain had left empty.
C8_EnrichmentKeepsChainValues ==
  cv.pc = "enriched" =>
    /\ Len(cv.out) <= Len(cv.shows)
    /\ \A k \in 1..Len(cv.out) :
         LET show == cv.shows[k]
             out == cv.out[k]
             tmdb == TmdbFor(show.title, cv.tmdbMetadataMap)
         IN  /\ out.title = show.title
             /\ HasPosterUrl(show.poster) => out.poster = show.poster
             /\ Len(show.directors) > 0 => out.directors = show.directors
             /\ show.duration # 0 => out.duration = show.duration
             /\ out.poster # show.poster =>
                  (tmdb # NULL /\ out.poster = tmdb.poster)
             /\ out.directors # show.directors =>
                  (tmdb # NULL /\ out.directors = tmdb.directors)
             /\ out.duration # show.duration =>
                  (tmdb # NULL /\ out.duration = tmdb.duration)

\* C8 witness: a show with directors and a duration but without a poster was
\* enriched from metadata that names other directors and another duration:
\* the poster was filled, the directors and the duration were kept.
C8_Witness ==
  /\ cv.pc = "enriched"
  /\ \E k \in 1..Len(cv.shows) :
       LET show == cv.shows[k]
           out == cv.out[k]
           tmdb == TmdbFor(show.title, cv.tmdbMetadataMap)
       IN  /\ tmdb # NULL
           /\ show.directors = <<"y">>
           /\ tmdb.directors = <<"x">>
           /\ out.directors = <<"y">>
           /\ show.duration = 2
           /\ tmdb.duration = 1
           /\ out.duration = 2
           /\ show.poster = NULL
           /\ out.poster = [url |-> <<TMDB_IMAGE_BASE, "/p">>]

\* C9: without a credential a call of getMovieMetadata is never past its
\* guard; it returns null, has sent no request, has neither read nor written
\* the process-local table and has not used the store; the table and the
\* persistent metadata cache stay empty and the store is never opened.
C9_NoCredentialNoLookup ==
  TMDB_API_KEY = "" =>
    /\ \A title \in Titles :
         /\ mm[title].pc \in {"idle", "done"}
         /\ mm[title].pc = "done" =>
              /\ mm[title].ret = NULL
              /\ mm[title].requests = 0
              /\ ~mm[title].memRead
              /\ ~mm[title].memWrote
              /\ ~mm[title].kvUsed
    /\ tmdbMemoryCache = [k \in CacheKeys |-> NoEntry]
    /\ tmdbKv = [k \in CacheKeys |-> NoTmdb]
    /\ kv = "null"

\* C9 witness: without a credential, the last of the calls has returned.
C9_Witness ==
  /\ TMDB_API_KEY = ""
  /\ calls = MaxCalls
  /\ \E title \in Titles :
       /\ mm[title].pc = "done"
       /\ mm[title].by = "direct"
       /\ mm[title].ret = NULL

\* C11: getLetterboxdList sends at most maxRetries requests, the k-th when
\* attempt = k; a 503 and a network error are retried while attempts are
\* left and raised (the error of that last response) when none is; nothing
\* is requested after a 2xx; a call that fails raises the error of its last
\* response; and between two requests lies exactly one delay.
C11_RetryPolicy ==
  /\ [](\A t \in Tasks :
          LET tk == task[t]
          IN  /\ tk.attempt <= maxRetries
              /\ tk.pc \in {"ll_fetch", "ll_delay"} =>
                   (tk.attempt >= 1 /\ ~tk.listOk)
              /\ tk.pc = "ll_delay" => tk.attempt < maxRetries
              /\ tk.resp \in {"503", "network"} =>
                   \/ tk.pc \in {"ll_delay", "ll_fetch"}
                   \/ /\ tk.pc = "fc_ret"
                      /\ tk.attempt = maxRetries
                      /\ tk.raised
                      /\ tk.error = ErrorFor(tk.resp)
              /\ tk.listOk => tk.pc \notin {"ll_fetch", "ll_delay"}
              /\ (tk.pc = "fc_ret" /\ tk.listAsked /\ ~tk.listOk) =>
                   /\ tk.raised
                   /\ tk.error = IF tk.resp = "okBadBody" THEN "syntax"
                                 ELSE ErrorFor(tk.resp))
  /\ [][\A t \in Tasks :
          /\ (task[t].pc = "ll_fetch" /\ task'[t] # task[t]) =>
               /\ task'[t].pc \in {"ll_delay", "fc_chains", "fc_ret"}
               /\ task'[t].pc = "ll_delay" =>
                    task'[t].attempt = task[t].attempt
          /\ (task'[t].pc = "ll_fetch" /\ task[t].pc # "ll_fetch") =>
               \/ /\ task[t].pc = "ll_delay"
                  /\ task'[t].attempt = task[t].attempt + 1
               \/ /\ task[t].pc = "gc_ret"
                  /\ task'[t].attempt = 1]_vars

\* C11 witness: the third request failed with a network error as well, and
\* the call has raised that error.
C11_Witness ==
  \E t \in Tasks :
    /\ task[t].pc = "fc_ret"
    /\ task[t].resp = "network"
    /\ task[t].attempt = maxRetries
    /\ task[t].raised
    /\ task[t].error = "network"

\* C12: once a request was answered 404, on whichever attempt, the call has
\* raised the "not found" error: it is in no delay and sends no request; and
\* the message of that error differs from that of every other failure.
C12_NotFoundRaisesAtOnce ==
  /\ \A t \in Tasks :
       task[t].resp = "404" =>
         /\ task[t].pc = "fc_ret"
         /\ task[t].raised
         /\ task[t].error = "notfound"
  /\ \A r \in {"503", "500", "network"} : ErrorFor(r) # ErrorFor("404")

\* C12 witness: the second request of a call, after a retry, was answered 404
\* and the call has raised.
C12_Witness ==
  \E t \in Tasks :
    /\ task[t].resp = "404"
    /\ task[t].attempt = 2
    /\ task[t].pc = "fc_ret"
    /\ task[t].error = "notfound"

\* C13 as stated: once a request was answered with a status other than 2xx,
\* 503 and 404, the call has raised the generic error, after that one
\* request.
C13_OtherStatusRaisesAtOnce ==
  \A t \in Tasks :
    task[t].resp = "500" =>
      /\ task[t].pc = "fc_ret"
      /\ task[t].raised
      /\ task[t].error = "generic"
      /\ task[t].attempt = 1

\* C13 witness: the first request was answered 500 and the call waits to
\* send the next one.
C13_Witness ==
  \E t \in Tasks :
    /\ task[t].resp = "500"
    /\ task[t].attempt = 1
    /\ task[t].pc = "ll_delay"
    /\ ~task[t].raised

\* C14: normalizeTitle is idempotent: applied to its own result it returns
\* that result, which holds lower-case letters and digits separated by single
\* spaces and neither starts nor ends with a space.
C14_NormalizeIdempotent ==
  fn.name = "normalizeTitle" =>
    /\ normalizeTitle(fn.result) = fn.result
    /\ \A k \in 1..Len(fn.result) : fn.result[k] \in {"a", "b", "e", "1", " "}
    /\ Trim(fn.result) = fn.result

\* C14 witness: a title with an upper-case letter, an accent and a
\* punctuation mark after a space was normalized to something else.
C14_Witness ==
  /\ fn.name = "normalizeTitle"
  /\ \E k \in 1..Len(fn.args[1]) : fn.args[1][k] \in {"B", "e^"}
  /\ \E k \in 2..Len(fn.args[1]) :
       fn.args[1][k] = "!" /\ IsSpace(fn.args[1][k - 1])
  /\ fn.result # fn.args[1]
  /\ Len(fn.result) = 1

\* C15: the match rule is symmetric: for normalized titles a and b the test
\* of a against b gives what the test of b against a gives.
C15_MatchSymmetric ==
  fn.name = "isMatch" =>
    fn.result = isMatch(fn.args[2], fn.args[1])

\* C15 witness: a title matched a longer title that contains it, the two
\* being different.
C15_Witness ==
  /\ fn.name = "isMatch"
  /\ fn.result
  /\ Len(fn.args[1]) > 0
  /\ Len(fn.args[1]) < Len(fn.args[2])
  /\ Includes(fn.args[2], fn.args[1])
  /\ ~Includes(fn.args[1], fn.args[2])

\* C16: the merge is concatenation: the merged list holds the shows of
\* Chain A, in their order, then those of Chain B, in their order; its
\* length is the sum of the two lengths, so a show that both chains deliver
\* is there twice; and the list is wrapped in the envelope.
C16_MergeIsConcatenation ==
  fn.name = "merge" =>
    LET a == IF fn.args[1].status = "fulfilled" THEN fn.args[1].value
             ELSE <<>>
        b == IF fn.args[2].status = "fulfilled" THEN fn.args[2].value
             ELSE <<>>
    IN  /\ DOMAIN fn.result = {"data"}
        /\ Len(fn.result.data) = Len(a) + Len(b)
        /\ \A k \in 1..Len(a) : fn.result.data[k] = a[k]
        /\ \A k \in 1..Len(b) : fn.result.data[Len(a) + k] = b[k]

\* C16 witness: both chains delivered the same two shows, in opposite orders,
\* and the merged list holds the four of them.
C16_Witness ==
  /\ fn.name = "merge"
  /\ fn.args[1] = [status |-> "fulfilled", value |-> <<"a", "b">>]
  /\ fn.args[2] = [status |-> "fulfilled", value |-> <<"b", "a">>]
  /\ fn.result.data = <<"a", "b", "b", "a">>

\* C17 (the statement the code is held to): when fetchPatheShowtimes has
\* returned, no two shows of its result, which the merge puts whole into the
\* aggregation result, have the same id.
C17_IdsUnique ==
  pa.pc = "done" =>
    \A i \in 1..Len(pa.shows), j \in 1..Len(pa.shows) :
      i # j => pa.shows[i].id # pa.shows[j].id

\* C17 witness: one query delivered two showtimes of the same hour in two
\* auditoriums, and the two shows made of them have the same id.
C17_Witness ==
  /\ pa.pc = "done"
  /\ pa.matchedFilms = <<"f1">>
  /\ pa.results[<<1, 1>>].kind = "ok"
  /\ Len(pa.results[<<1, 1>>].data) = 2
  /\ pa.results[<<1, 1>>].data[1].time = pa.results[<<1, 1>>].data[2].time
  /\ pa.results[<<1, 1>>].data[1].auditoriumName
       # pa.results[<<1, 1>>].data[2].auditoriumName
  /\ Len(pa.shows) = 2
  /\ pa.shows[1].id = pa.shows[2].id

\* The shows of the result that belong to the query s.
ShowsOfSlice(s) ==
  SelectSeq(pa.shows,
            LAMBDA x : /\ x.film = pa.matchedFilms[s[1]]
                       /\ x.theater = Requests[s[2]].cinema
                       /\ x.id[4][1] = Requests[s[2]].date)

\* C19: when fetchPatheShowtimes has returned and the records delivered have
\* times that convert (C29 is about those that do not), every query that
\* succeeded has its showtimes in the result, one show each and in their order,
\* whichever of the other queries failed; a query that failed has none; and
\* the result holds nothing else.
C19_SliceIsolation ==
  (/\ pa.pc = "done" /\ pa.matchedFilms # <<>>
   /\ \A s \in Slices(pa.matchedFilms) :
        \A k \in 1..Len(pa.results[s].data) :
          ~patheShowtimeToShowRaises(pa.results[s].data[k])) =>
    /\ \A s \in Slices(pa.matchedFilms) :
         IF pa.results[s].kind = "ok"
         THEN ShowsOfSlice(s) =
                [k \in 1..Len(pa.results[s].data) |->
                   patheShowtimeToShow(pa.results[s].data[k],
                                       pa.matchedFilms[s[1]],
                                       Requests[s[2]].cinema)]
         ELSE ShowsOfSlice(s) = <<>>
    /\ Len(pa.shows) =
         Delivered(pa.results,
                   {s \in Slices(pa.matchedFilms) : pa.results[s].kind = "ok"})

\* C19 witness: a request failed, another had a status that is not 2xx, a
\* third had an unreadable body, and the shows of the fourth were returned.
C19_Witness ==
  /\ pa.pc = "done"
  /\ \E s \in Slices(pa.matchedFilms) : pa.results[s].kind = "network"
  /\ \E s \in Slices(pa.matchedFilms) : pa.results[s].kind = "status"
  /\ \E s \in Slices(pa.matchedFilms) : pa.results[s].kind = "body"
  /\ \E s \in Slices(pa.matchedFilms) :
       /\ pa.results[s].kind = "ok"
       /\ Len(pa.results[s].data) = 2
       /\ \A k \in 1..2 : ~patheShowtimeToShowRaises(pa.results[s].data[k])
  /\ Len(pa.shows) = 2

\* C18 (the statement the code is held to): no call of getMovieMetadata is
\* rejected, whatever its requests met, and the enrichment stage of
\* fetchCinevilleShowtimes returns as many shows as were fetched.
C18_LookupFailureIsNoEnrichment ==
  /\ \A title \in Titles : ~mm[title].raised
  /\ cv.pc = "enriched" => Len(cv.out) = Len(cv.shows)

\* C18 witness: the details request of a title met a body that is not JSON,
\* the call was rejected, and the adapter returns no show of those fetched.
C18_Witness ==
  /\ cv.pc = "enriched"
  /\ cv.shows # <<>>
  /\ cv.out = <<>>

\* C20 (the statement the code is held to): a getCached that returns a value
\* returns one that was passed to a setCache call.
C20_GetReturnsAPassedValue ==
  (/\ task[GetTask].op = "get"
   /\ task[GetTask].pc = "gc_ret"
   /\ task[GetTask].cached # NULL) =>
     task[GetTask].cached \in passed

\* C20 witness: the lists [a,b] and then [b,a] were passed to setCache; the
\* getCached that ran during the second call read chunks of both and
\* returned [b,b], a list no call was given.
C20_Witness ==
  /\ passed = {Envelope(<<"a", "b">>), Envelope(<<"b", "a">>)}
  /\ task[SetTask].op = "set"
  /\ task[SetTask].val = Envelope(<<"b", "a">>)
  /\ task[GetTask].op = "get"
  /\ task[GetTask].pc = "gc_ret"
  /\ ~task[GetTask].fault
  /\ task[GetTask].cached = Envelope(<<"b", "b">>)

\* The metadata record and the chunk records 0..chunkCount-1 are those the
\* call t writes.
StoreHoldsCallOf(t) ==
  /\ kvMeta.present
  /\ kvMeta.chunks = Len(task[t].chunks)
  /\ \A i \in 0..(kvMeta.chunks - 1) :
       kvChunk[i] = [present |-> TRUE, value |-> task[t].chunks[i + 1]]

\* C21 (the statement the code is held to): when two setCache calls on the
\* key have both returned, without a failure of the store, the metadata
\* record and the chunk records it counts are those of one of the two calls,
\* and a getCached that follows and returns a value returns that of one of
\* the two calls.
C21_LastWriteWins ==
  (/\ task[FirstSet].pc = "sc_ret" /\ ~task[FirstSet].fault
   /\ task[SecondSet].pc = "sc_ret" /\ ~task[SecondSet].fault) =>
     /\ StoreHoldsCallOf(FirstSet) \/ StoreHoldsCallOf(SecondSet)
     /\ (task[GetAfter].pc = "gc_ret" /\ task[GetAfter].cached # NULL) =>
          task[GetAfter].cached \in {task[FirstSet].val, task[SecondSet].val}

\* C21 witness: setCache(key, [a,b]) and setCache(key, [b,a]) ran at the same
\* time and both returned without a failure; the getCached that followed
\* returned [b,b].
C21_Witness ==
  /\ task[FirstSet].pc = "sc_ret" /\ ~task[FirstSet].fault
  /\ task[SecondSet].pc = "sc_ret" /\ ~task[SecondSet].fault
  /\ task[SecondSet].after = NoPrev
  /\ task[FirstSet].val = Envelope(<<"a", "b">>)
  /\ task[SecondSet].val = Envelope(<<"b", "a">>)
  /\ task[GetAfter].pc = "gc_ret"
  /\ ~task[GetAfter].fault
  /\ task[GetAfter].cached = Envelope(<<"b", "b">>)

\* C22 (the statement the code is held to): the second setCache was called
\* after the first had returned and has written its metadata record, the
\* first record a call writes; a getCached that follows and returns a value
\* returns the value of the second call, whose timestamp it checked.
C22_ValueOfCheckedTimestamp ==
  (/\ task[SecondSet].after.kind = "set"
   /\ task[SecondSet].pc = "sc_ret"
   /\ task[SecondSet].wrote
   /\ task[GetAfter].pc = "gc_ret"
   /\ task[GetAfter].cached # NULL) =>
     task[GetAfter].cached = task[SecondSet].val

\* C22 witness: setCache(key, [a,b]) returned; setCache(key, [b,a]) wrote its
\* metadata record at a later time and failed before it wrote a chunk; the
\* getCached that followed checked that later timestamp and returned [a,b].
C22_Witness ==
  /\ task[FirstSet].val = Envelope(<<"a", "b">>)
  /\ task[SecondSet].after =
       [kind |-> "set", val |-> Envelope(<<"a", "b">>), fault |-> FALSE]
  /\ task[SecondSet].val = Envelope(<<"b", "a">>)
  /\ task[SecondSet].pc = "sc_ret"
  /\ task[SecondSet].fault
  /\ task[SecondSet].wrote
  /\ task[GetAfter].pc = "gc_ret"
  /\ ~task[GetAfter].fault
  /\ task[GetAfter].meta.timestamp > 0
  /\ task[GetAfter].cached = Envelope(<<"a", "b">>)

\* C23 (the statement the code is held to): a getCached that found the
\* metadata record, unexpired, and a chunk record missing, has deleted every
\* record of the key when it returns.
C23_MissingChunkDeletesEntry ==
  \A t \in Tasks :
    LET tk == task[t]
    IN  (/\ tk.pc = "gc_ret" /\ tk.metaSeen /\ ~tk.fault
         /\ NotExpiredAtRead(tk)
         /\ ~AllChunksPresent(tk.meta)) =>
          /\ ~kvMeta.present
          /\ \A i \in ChunkIdx : ~kvChunk[i].present

\* C23 witness: chunk record 1 of an unexpired entry of three chunks is
\* missing; getCached has returned null, and the metadata record and the
\* chunk records 0 and 2 are still there.
C23_Witness ==
  \E t \in Tasks :
    /\ task[t].pc = "gc_ret" /\ task[t].metaSeen /\ ~task[t].fault
    /\ NotExpiredAtRead(task[t])
    /\ task[t].cached = NULL
    /\ task[t].meta.chunks = 3
    /\ ~kvChunk[1].present
    /\ kvMeta.present
    /\ kvChunk[0].present
    /\ kvChunk[2].present

\* C24 (as amended): a getCached that found a metadata record of age >= TTL
\* returns null; and when its delete was committed, neither the metadata
\* record nor a chunk record with an index below the chunk count it read
\* exists when it returns. When the commit failed it has deleted nothing.
C24_ExpiredIsDeleted ==
  \A t \in Tasks :
    LET tk == task[t]
    IN  (/\ tk.pc = "gc_ret" /\ tk.metaSeen
         /\ Expired(tk.readAt - tk.meta.timestamp)) =>
          /\ tk.cached = NULL
          /\ tk.deleted =>
               /\ ~kvMeta.present
               /\ \A i \in 0..(tk.meta.chunks - 1) : ~kvChunk[i].present
          /\ ~tk.deleted => (tk.fault /\ kvMeta = tk.meta)

\* C24 witness: an entry of three chunks, all present, was read at the age
\* TTL; its records are deleted and null is returned.
C24_Witness ==
  \E t \in Tasks :
    /\ task[t].pc = "gc_ret" /\ task[t].metaSeen
    /\ task[t].readAt = task[t].meta.timestamp + CACHE_TTL_MS
    /\ task[t].meta.chunks = 3
    /\ task[t].deleted
    /\ task[t].cached = NULL
    /\ ~kvMeta.present
    /\ \A i \in 0..2 : ~kvChunk[i].present

\* C24 (as stated): whenever a getCached that found a metadata record of age
\* >= TTL returns, the metadata record and the chunk records below its chunk
\* count are gone.
C24_ExpiredIsAlwaysDeleted ==
  \A t \in Tasks :
    LET tk == task[t]
    IN  (/\ tk.pc = "gc_ret" /\ tk.metaSeen
         /\ Expired(tk.readAt - tk.meta.timestamp)) =>
          /\ ~kvMeta.present
          /\ \A i \in 0..(tk.meta.chunks - 1) : ~kvChunk[i].present

\* C25 (the statement the code is held to): between two calls every chunk
\* record of the key has an index below the chunk count of the metadata
\* record, and there is none when there is no metadata record.
C25_NoOrphanedChunks ==
  AllIdle =>
    \A i \in ChunkIdx :
      kvChunk[i].present => (kvMeta.present /\ i < kvMeta.chunks)

\* C25 witness: a value of three chunks was stored, then the empty list, of
\* two chunks, was stored over it without a failure; chunk record 2 of the
\* first value is still there.
C25_Witness ==
  /\ AllIdle
  /\ prev = [kind |-> "set", val |-> Envelope(<<>>), fault |-> FALSE]
  /\ kvMeta.present
  /\ kvMeta.chunks = 2
  /\ kvChunk[2] = [present |-> TRUE, value |-> <<"}">>]

\* C26 (the statement the code is held to): a call of getMovieMetadata one of
\* whose requests failed has put nothing into the process-local table, and
\* the null it would store is not in the persistent cache.
C26_NoNullAfterFailedLookup ==
  \A title \in Titles :
    mm[title].failed =>
      /\ ~mm[title].memWrote
      /\ ~(/\ mm[title].pc = "done"
           /\ tmdbKv[toLowerCase(title)].present
           /\ tmdbKv[toLowerCase(title)].data = NULL)

\* C26 witness: the search request for "a" failed and the call has returned;
\* null is in the process-local table and in the persistent cache, and a
\* call for "A", the same key, has returned null from the table without
\* sending a request.
C26_Witness ==
  /\ mm["a"].pc = "done"
  /\ mm["a"].failed
  /\ mm["a"].requests = 1
  /\ tmdbMemoryCache["a"] = Entry(NULL)
  /\ tmdbKv["a"].present
  /\ tmdbKv["a"].data = NULL
  /\ mm["A"].pc = "done"
  /\ mm["A"].memRead
  /\ ~mm["A"].memWrote
  /\ mm["A"].requests = 0
  /\ mm["A"].ret = NULL

\* C27: when fetchCinevilleShowtimes has returned, it returns no show if the
\* id-resolution query or the query of a batch failed, also when the query
\* of another batch delivered shows; it returns the shows of all batches, in
\* their order, when every query succeeded; and every query was sent once.
C27_ChainAAllOrNothing ==
  ca.pc = "done" =>
    LET failed == \/ ca.films.kind # "ok"
                  \/ \E b \in 1..Len(ca.batches) :
                       ca.batches[b].kind \in {"network", "status", "body"}
        nb == (ca.films.n + FilmBatchSize - 1) \div FilmBatchSize
    IN  /\ failed => ca.out = <<>>
        /\ ca.out # <<>> =>
             \A b \in 1..Len(ca.batches) : ca.batches[b].kind = "ok"
        /\ ~failed =>
             /\ Len(ca.out) = Delivered(ca.batches, 1..Len(ca.batches))
             /\ \A k \in 1..Len(ca.out) : ca.out[k].chain = "cineville"
        /\ Len(ca.batches) = nb
        /\ ca.requests = 1 + nb

\* C27 witness: the query of the first batch delivered a show, the query of
\* the second batch had a status that is not 2xx, and no show is returned.
C27_Witness ==
  /\ ca.pc = "done"
  /\ Len(ca.batches) = 2
  /\ ca.batches[1].kind = "ok"
  /\ Len(ca.batches[1].data) = 1
  /\ ca.batches[2].kind = "status"
  /\ ca.out = <<>>
  /\ ca.requests = 3

\* C28 (the statement the code is held to): a watchlist title that
\* normalizes to the empty string, as a title of punctuation only does,
\* matches no slug title.
C28_EmptyTitleMatchesNothing ==
  (fn.name = "isMatch" /\ fn.args[2] = normalizeTitle(<<"!", "!">>)) =>
    ~fn.result

\* C28 witness: the watchlist title is empty after normalization, the slug
\* title is "a", and the test holds: the zone entry is kept.
C28_Witness ==
  /\ fn.name = "isMatch"
  /\ fn.args[1] = <<"a">>
  /\ fn.args[2] = <<>>
  /\ normalizeTitle(<<"!", "!">>) = <<>>
  /\ fn.result

\* C29 (the statement the code is held to): when fetchPatheShowtimes has
\* returned, every delivered record whose time and endTime convert has its
\* show in the result, whatever the other records are.
C29_BadRecordAffectsItself ==
  (pa.pc = "done" /\ pa.matchedFilms # <<>>) =>
    \A s \in Slices(pa.matchedFilms) :
      \A k \in 1..Len(pa.results[s].data) :
        ~patheShowtimeToShowRaises(pa.results[s].data[k]) =>
          \E j \in 1..Len(pa.shows) :
            pa.shows[j] = patheShowtimeToShow(pa.results[s].data[k],
                                              pa.matchedFilms[s[1]],
                                              Requests[s[2]].cinema)

\* C29 witness: the query for one cinema delivered a record with a time that
\* does not parse, the query for the other cinema a record that converts;
\* no query failed, and no show is returned.
C29_Witness ==
  /\ pa.pc = "done"
  /\ pa.matchedFilms = <<"f1">>
  /\ pa.results[<<1, 1>>].kind = "ok"
  /\ Len(pa.results[<<1, 1>>].data) = 1
  /\ pa.results[<<1, 1>>].data[1].time[2] = "??"
  /\ pa.results[<<1, 2>>].kind = "ok"
  /\ Len(pa.results[<<1, 2>>].data) = 1
  /\ ~patheShowtimeToShowRaises(pa.results[<<1, 2>>].data[1])
  /\ pa.shows = <<>>

C31_CronRefreshes ==
  \A t \in Tasks :
    (/\ task[t].pc = "fc_ret"
     /\ ~task[t].raised) =>
       /\ kvMeta.present
       /\ kvMeta.timestamp >= task[t].start

\* C31 witness: an invocation that started after the entry was written has
\* returned the entry from the cache, no store call of it having failed, and
\* has written nothing.
C31_Witness ==
  \E t \in Tasks :
    /\ task[t].pc = "fc_ret"
    /\ ~task[t].raised
    /\ ~task[t].fault
    /\ task[t].source = "cache"
    /\ ~task[t].wrote
    /\ ~task[t].listAsked
    /\ kvMeta.present
    /\ kvMeta.timestamp < task[t].start

\* C32: every chunk that setCache hands to the store takes at most CHUNK_SIZE
\* bytes, whatever characters the serialized payload holds.
C32_ChunkBytesBounded ==
  fn.name = "split" =>
    \A k \in 1..Len(fn.result.chunks) :
      SerializedSize(fn.result.chunks[k]) <= CHUNK_SIZE

\* C32 witness: a payload with characters above U+00FF was split; a chunk of
\* CHUNK_SIZE code units takes more bytes than CHUNK_SIZE, and more than the
\* ceiling of the store, which rejects it.
C32_Witness ==
  /\ fn.name = "split"
  /\ \E k \in 1..Len(fn.result.chunks) :
       /\ Len(fn.result.chunks[k]) = CHUNK_SIZE
       /\ SerializedSize(fn.result.chunks[k]) > CHUNK_SIZE
       /\ ~fn.result.accepted[k]

\* C33: setCache(key, v) has returned, no store call of it having failed; a
\* getCached that started afterwards has returned, no store call of it having
\* failed, within the TTL of the call of setCache: it has returned v, whatever
\* a getCached that ran beside the setCache did.
C33_GetAfterSetReturnsValue ==
  (/\ task[SecondSet].pc = "sc_ret"
   /\ ~task[SecondSet].fault
   /\ task[GetAfter].pc = "gc_ret"
   /\ ~task[GetAfter].fault
   /\ now - task[SecondSet].start < CACHE_TTL_MS) =>
     task[GetAfter].cached = task[SecondSet].val

\* C33 witness: a getCached read the expired metadata record of the first
\* setCache before the second setCache was called, and deleted the records
\* after it; the getCached that followed the second setCache found nothing.
C33_Witness ==
  /\ task[FirstSet].pc = "sc_ret" /\ ~task[FirstSet].fault
  /\ task[StaleGet].metaSeen
  /\ task[StaleGet].readAt <= task[SecondSet].start
  /\ Expired(task[StaleGet].readAt - task[StaleGet].meta.timestamp)
  /\ task[StaleGet].deleted
  /\ task[SecondSet].pc = "sc_ret" /\ ~task[SecondSet].fault
  /\ task[SecondSet].wrote
  /\ task[SecondSet].val = Envelope(<<"a", "b">>)
  /\ task[GetAfter].pc = "gc_ret" /\ ~task[GetAfter].fault
  /\ now - task[SecondSet].start < CACHE_TTL_MS
  /\ ~kvMeta.present
  /\ task[GetAfter].cached = NULL

\* C34 (as amended): every step of a call of getMovieMetadata keeps the
\* order table, persistent cache, live source. A call that finds its key in
\* the process-local table returns the entry at once, with no store call and
\* no request; a call that does not goes to the persistent cache first; a
\* hit there (a stored null too) is put into the table and returned with no
\* request; a request is sent only after the persistent cache gave nothing;
\* the result of the live lookup (a null too) is put into the table, then
\* written to the persistent cache unless the store cannot be opened or the
\* write fails, which leaves the store as it was, and then returned.
C34_LookupOrder ==
  [][\A title \in Titles :
       LET c == mm[title]
           d == mm'[title]
           key == toLowerCase(title)
       IN  /\ (/\ c.pc = "idle" /\ d.pc # "idle"
               /\ TMDB_API_KEY # "" /\ tmdbMemoryCache[key].has) =>
                 /\ d.pc = "done"
                 /\ ~d.kvUsed
                 /\ d.requests = 0
                 /\ d.ret = tmdbDetailsToMetadata(tmdbMemoryCache[key].value)
                 /\ tmdbKv' = tmdbKv
                 /\ tmdbMemoryCache' = tmdbMemoryCache
           /\ (/\ c.pc = "idle" /\ d.pc # "idle"
               /\ TMDB_API_KEY # "" /\ ~tmdbMemoryCache[key].has) =>
                 /\ d.pc = "kv_open"
                 /\ d.requests = 0
           /\ (c.pc = "kv_get" /\ d.pc = "done") =>
                 /\ tmdbKv[key].present
                 /\ d.requests = 0
                 /\ tmdbMemoryCache'[key] = Entry(tmdbKv[key].data)
                 /\ d.ret = tmdbDetailsToMetadata(tmdbKv[key].data)
           /\ (d.pc = "search" /\ c.pc # "search") =>
                 /\ c.pc \in {"kv_open", "kv_get"}
                 /\ c.requests = 0
           /\ d.requests > c.requests => c.pc \in {"search", "details"}
           /\ (c.pc \in {"search", "details"} /\ d.pc = "set_open") =>
                 tmdbMemoryCache'[key] = Entry(d.data)
           /\ (c.pc \in {"set_open", "set_put"} /\ d.pc = "done") =>
                 /\ d.ret = tmdbDetailsToMetadata(c.data)
                 /\ tmdbMemoryCache' = tmdbMemoryCache
                 /\ \/ tmdbKv' = tmdbKv
                    \/ /\ c.pc = "set_put"
                       /\ tmdbKv'[key] =
                            [present |-> TRUE, data |-> c.data,
                             timestamp |-> now]]_vars

\* C34 witness: a call found a stored null in the persistent cache: it has
\* returned null without a request, and the null is in the process-local
\* table.
C34_Witness ==
  \E title \in Titles :
    /\ mm[title].pc = "done"
    /\ mm[title].kvUsed
    /\ mm[title].requests = 0
    /\ mm[title].memWrote
    /\ mm[title].ret = NULL
    /\ tmdbKv[toLowerCase(title)].present
    /\ tmdbKv[toLowerCase(title)].data = NULL
    /\ tmdbMemoryCache[toLowerCase(title)] = Entry(NULL)

\* C34 as stated: a call that has returned the result of a live lookup has
\* left it in the process-local table and in the persistent cache.
C34_LiveResultInBothCaches ==
  \A title \in Titles :
    (/\ mm[title].pc = "done"
     /\ mm[title].requests > 0
     /\ ~mm[title].raised) =>
       /\ tmdbMemoryCache[toLowerCase(title)].has
       /\ tmdbKv[toLowerCase(title)].present

\* C35: a call of getMovieMetadata made by an enrichment stage, with the
\* credential set, consults the persistent cache: what the stage of an
\* earlier aggregation call put into the process-local table is not used.
\* (The calls of one stage all look into the table before any of them writes
\* it, so an entry a call finds there is one of an earlier stage.)
C35_TableShadowsOneRunOnly ==
  \A title \in Titles :
    (/\ cv.pc = "prefetch"
     /\ mm[title].pc = "done"
     /\ mm[title].by = "cv"
     /\ mm[title].memRead) =>
       mm[title].kvUsed

\* C35 witness: the second enrichment stage of the process asks for a title
\* whose persistent record has expired; the call has returned the entry of
\* the process-local table without a store call and without a request.
C35_Witness ==
  \E title \in Titles :
    /\ calls = MaxCalls
    /\ cv.pc = "prefetch"
    /\ mm[title].pc = "done"
    /\ mm[title].by = "cv"
    /\ mm[title].memRead
    /\ ~mm[title].kvUsed
    /\ mm[title].requests = 0
    /\ tmdbMemoryCache[toLowerCase(title)].has
    /\ tmdbKv[toLowerCase(title)].present
    /\ MetadataExpired(now - tmdbKv[toLowerCase(title)].timestamp)

\* C36: two calls of getMovieMetadata for one key have each sent their own
\* requests to the live source and have both returned: they return the same
\* metadata, and it is the metadata of the entry the process-local table and
\* the persistent cache hold.
C36_DuplicateLookupsAgree ==
  \A t1 \in Titles, t2 \in Titles :
    (/\ t1 # t2
     /\ toLowerCase(t1) = toLowerCase(t2)
     /\ mm[t1].pc = "done" /\ mm[t1].requests > 0 /\ ~mm[t1].raised
     /\ mm[t2].pc = "done" /\ mm[t2].requests > 0 /\ ~mm[t2].raised) =>
       /\ mm[t1].ret = mm[t2].ret
       /\ tmdbDetailsToMetadata(tmdbMemoryCache[toLowerCase(t1)].value)
            = mm[t1].ret
       /\ tmdbKv[toLowerCase(t1)].present =>
            tmdbDetailsToMetadata(tmdbKv[toLowerCase(t1)].data) = mm[t1].ret

\* C36 witness: two interleaved calls for one key; the lookup of one found
\* the film and returned its metadata, a request of the other failed, and it
\* wrote last: the table and the persistent cache hold null.
C36_Witness ==
  \E t1 \in Titles, t2 \in Titles :
    /\ t1 # t2
    /\ toLowerCase(t1) = toLowerCase(t2)
    /\ mm[t1].pc = "done" /\ mm[t1].requests > 0 /\ ~mm[t1].raised
    /\ mm[t2].pc = "done" /\ mm[t2].requests > 0 /\ ~mm[t2].raised
    /\ ~mm[t1].failed
    /\ mm[t1].ret # NULL
    /\ mm[t2].failed
    /\ mm[t2].ret = NULL
    /\ tmdbMemoryCache[toLowerCase(t1)] = Entry(NULL)
    /\ tmdbKv[toLowerCase(t1)].present
    /\ tmdbKv[toLowerCase(t1)].data = NULL

\* The entries the matcher is to keep: bookable, and the normalized slug
\* title equals, contains or is contained in a normalized watchlist title.
C37_IsKept(watchlistTitles, show) ==
  /\ show.bookable
  /\ \E k \in 1..Len(watchlistTitles) :
       LET s == normalizeTitle(slugToTitle(show.slug))
           w == normalizeTitle(watchlistTitles[k])
       IN s = w \/ Includes(s, w) \/ Includes(w, s)

\* C37: matchPatheFilmsFromZone returns, in the order of the zone response,
\* exactly the entries that are bookable and whose normalized slug title
\* equals, contains or is contained in a normalized watchlist title; an entry
\* that is not bookable is never returned.
C37_ZoneMatchIsBookableFilter ==
  fn.name = "matchPatheFilmsFromZone" =>
    LET watchlistTitles == fn.args[1]
        zoneShows == fn.args[2]
        kept == {k \in 1..Len(zoneShows) : C37_IsKept(watchlistTitles, zoneShows[k])}
    IN /\ Len(fn.result) = Cardinality(kept)
       /\ \A j \in 1..Len(fn.result) :
            \E k \in kept :
              /\ Cardinality({i \in kept : i <= k}) = j
              /\ fn.result[j] = zoneShows[k]
       /\ \A j \in 1..Len(fn.result) : fn.result[j].bookable

\* The watchlist holds one title; the zone response holds an entry that
\* matches it but is not bookable, then a bookable entry that equals it once
\* the indicator and the id are stripped: only the second is returned.
C37_Witness ==
  /\ fn.name = "matchPatheFilmsFromZone"
  /\ fn.args[1] = << <<"a">> >>
  /\ Len(fn.args[2]) = 2
  /\ ~fn.args[2][1].bookable
  /\ C37_IsKept(fn.args[1], [fn.args[2][1] EXCEPT !.bookable = TRUE])
  /\ fn.args[2][2].slug = <<"a">> \o DubSuffix \o <<"-", "1">>
  /\ slugToTitle(fn.args[2][2].slug) = <<"a">>
  /\ fn.result = <<fn.args[2][2]>>
\* The UTC instant of a local wall-clock time of the source: the local time
\* minus the offset in force at the cinema on that date.
C38_UtcOf(local) == toISOString(DateParse(local, OffsetInForce(local.season)))

\* C38: for every Chain B showtime, startDate and endDate are the UTC instants
\* of the local wall-clock times of the source, on standard-time dates and on
\* daylight-saving dates alike; without an end time, endDate equals startDate.
C38_DatesAreUtcOfLocalTime ==
  fn.name = "patheShowtimeToShow" =>
    LET showtime == fn.args[1] IN
    /\ fn.result.startDate = C38_UtcOf(showtime.time)
    /\ fn.result.endDate =
         (IF Len(showtime.endTime) > 0
          THEN C38_UtcOf(showtime.endTime[1])
          ELSE fn.result.startDate)

\* A showtime at 17:00 on a summer day: the cinema is at UTC+2, the instant is
\* 15:00Z, and startDate says 16:00Z.
C38_Witness ==
  /\ fn.name = "patheShowtimeToShow"
  /\ fn.args[1].time = [season |-> "summer", day |-> 1, hour |-> 17]
  /\ fn.args[1].endTime = <<>>
  /\ C38_UtcOf(fn.args[1].time).hour = 15
  /\ fn.result.startDate.hour = 16
  /\ fn.result.endDate = fn.result.startDate

\* On standard-time dates the dates are the UTC instants, and without an end
\* time endDate equals startDate on every date.
C38_WinterDatesAreUtc ==
  fn.name = "patheShowtimeToShow" =>
    LET showtime == fn.args[1] IN
    /\ showtime.time.season = "winter" =>
         fn.result.startDate = C38_UtcOf(showtime.time)
    /\ (Len(showtime.endTime) > 0 /\ showtime.endTime[1].season = "winter") =>
         fn.result.endDate = C38_UtcOf(showtime.endTime[1])
    /\ Len(showtime.endTime) = 0 => fn.result.endDate = fn.result.startDate

\* C39: the X-Cache header of a response of GET /api/cineboxd is HIT exactly
\* when the body was served from the cache, and MISS exactly when the body was
\* computed during the request.
C39_XCacheTellsSource ==
  (fn.name = "GET" /\ fn.pc = "done" /\ fn.status = 200) =>
    /\ fn.xCache = "HIT" <=> fn.source = "cache"
    /\ fn.xCache = "MISS" <=> fn.source = "fresh"

\* A request whose body is the cached value of an earlier request, and whose
\* second read of the cache gives a value equal to the body: X-Cache is MISS.
C39_Witness ==
  /\ fn.name = "GET"
  /\ fn.pc = "done"
  /\ fn.status = 200
  /\ fn.source = "cache"
  /\ fn.again.val = fn.resp.val
  /\ fn.xCache = "MISS"

\* X-Cache is MISS on every response with a body of shows.
C39_XCacheAlwaysMiss ==
  (fn.name = "GET" /\ fn.pc = "done" /\ fn.status = 200) => fn.xCache = "MISS"

\* C40: every call of fetchAndCacheShowtimes returns a result or raises, when
\* every store call and upstream request it waits for completes; the retry
\* loop of the list source makes at most maxRetries attempts.
C40_CallTerminates ==
  /\ \A t \in Tasks :
       (task[t].op = "fetch") ~> (task[t].op = "idle" /\ prev.kind = "fetch")
  /\ [](\A t \in Tasks : task[t].attempt <= maxRetries)

\* The second call of a run is about to return a result it computed, after a
\* first call that raised: both calls have come to their end.
C40_Witness ==
  \E t \in Tasks :
    /\ calls = 2
    /\ task[t].op = "fetch"
    /\ task[t].pc = "fc_ret"
    /\ ~task[t].raised
    /\ task[t].source = "fresh"
    /\ task[t].after.kind = "fetch"
    /\ task[t].after.val = NULL
====
